---- MODULE Spec2Model ----
(***************************************************************************)
(* Codemate: the hybrid retrieval and re-ranking pipeline of               *)
(* src/retrieval.py.  One query runs                                       *)
(*   HybridRetriever._retrieve  (vector retriever, BM25 retriever, fusion) *)
(*   -> ColbertRerank (top_n = config.RERANKER_TOP_N)                      *)
(*   -> response synthesis,                                                *)
(* as assembled by setup_query_engine.                                     *)
(*                                                                         *)
(* A NodeWithScore is a mutable Python object.  The model keeps the two    *)
(* result lists as the heap (vector_nodes, bm25_nodes) and every other     *)
(* holder (node_dict, all_nodes, reranked) keeps references into them, so  *)
(* that `node_dict[node_id].score = ...` changes the one object all        *)
(* holders see.                                                            *)
(*                                                                         *)
(* Scores are Python floats.  The model uses fixed point: the float 1.0 is *)
(* the integer Unit, a power of two large enough that every mean the       *)
(* fusion can compute within the bounds is an integer, as it is exact in   *)
(* binary floating point.  An absent score (Python None) is <<>>, a        *)
(* present score s is <<s>>.                                               *)
(***************************************************************************)
EXTENDS Integers, Sequences, FiniteSets, TLC

\* Bounds of the model.
MaxVec == 2
MaxBm == 2
MaxTopN == 2

\* Calls of app.initialize_agent that can be in progress at once.
MaxInits == 2

\* The count of setup_agent invocations stops here.
MaxSetupCalls == 2

\* Interactions and notes a session of the command-line loop can hold.
MaxHistory == 2
MaxNotes == 1

None == <<>>
Some(x) == <<x>>
Val(o) == o[1]

RECURSIVE Pow2(_)
Pow2(n) == IF n = 0 THEN 1 ELSE 2 * Pow2(n - 1)

\* The float 1.0; a node occurs at most MaxVec + MaxBm times in one call,
\* so its score is halved fewer than MaxVec + MaxBm times.
Unit == Pow2(MaxVec + MaxBm)

NodeIds == {"A", "B"}
RetrieverScores == {None, Some(Unit), Some(2 * Unit)}
RerankScores == {Unit, 2 * Unit}

\* NodeWithScore: node.node_id and score (Optional[float]).
ScoredNode == [id : NodeIds, score : RetrieverScores]

ResultLists(k) == UNION {[1..n -> ScoredNode] : n \in 0..k}

VARIABLES
    docstore,      \* document store: node id -> text
    vecAnswer,     \* what the vector index answers for the query
    bm25Answer,    \* what the BM25 index answers for the query
    top_n,         \* config.RERANKER_TOP_N
    pc,            \* position of the query in the pipeline
    vector_nodes,  \* heap: the NodeWithScore objects of the vector retriever
    bm25_nodes,    \* heap: the NodeWithScore objects of the BM25 retriever
    node_dict,     \* _retrieve's dict, in insertion order: <<[key, ref]>>
    i,             \* loop index of the running for-loop
    all_nodes,     \* the list _retrieve returns (references)
    returned,      \* the values of all_nodes at the return of _retrieve
    prev,          \* the values returned by the previous _retrieve
    reranked,      \* the list the re-ranker returns (references)
    response,      \* the query engine's response
    error,         \* the exception that ended the query
    node_metadata, \* entries written to node.node.metadata during the query
    invoked,       \* the sub-retrievers _retrieve has invoked, in order
    env,           \* GOOGLE_API_KEY, EMBED_MODEL and the ./storage directory
    proc,          \* the entry point this process runs
    lifecycle,     \* where the process is between start and exit
    agent,         \* the module-level `agent` of the process
    resp,          \* what the last handler answered
    initFailed,    \* an agent initialization of this process has failed
    inflight,      \* the /chat request whose agent.chat is running
    initializing,  \* calls of app.initialize_agent past their agent test
    setupCalls,    \* how often setup_agent has been invoked
    replaced,      \* an agent that was set has been assigned again
    session,       \* the ResearchSession of the command-line loop
    ingest         \* the state of a run of ingestion.py

vars == <<docstore, vecAnswer, bm25Answer, top_n, pc, vector_nodes, bm25_nodes,
          node_dict, i, all_nodes, returned, prev, reranked, response, error,
          node_metadata, invoked, env, proc, lifecycle, agent, resp, initFailed,
          inflight, initializing, setupCalls, replaced, session,
          ingest>>

\* The state of the serving surfaces; the query pipeline never touches it.
surface == <<env, proc, lifecycle, agent, resp, initFailed, inflight,
             initializing, setupCalls, replaced, session, ingest>>

index == <<docstore, vecAnswer, bm25Answer, top_n>>

----------------------------------------------------------------------------
\* References and the heap.

VRef(k) == [src |-> "vector", idx |-> k]
BRef(k) == [src |-> "bm25", idx |-> k]

Deref(r) == IF r.src = "vector" THEN vector_nodes[r.idx] ELSE bm25_nodes[r.idx]

Values(refs) == [k \in 1..Len(refs) |-> Deref(refs[k])]

Keys(d) == {d[k].key : k \in 1..Len(d)}

Lookup(d, key) == d[CHOOSE k \in 1..Len(d) : d[k].key = key].ref

\* x.score if x.score else 0 : None and 0.0 are falsy.
SortKey(score) == IF score = None THEN 0 ELSE Val(score)

\* Mutant of Mean: the scores are summed, not averaged.
MeanAsSum(a, b) == a + b

\* (existing + incoming) / 2 on floats
Mean(a, b) == (a + b) \div 2

\* Mutant of InsertDesc: an ascending sort reversed afterwards, which turns the
\* order of equal keys around.
RECURSIVE InsertDescTiesReversed(_, _, _, _)
InsertDescTiesReversed(sorted, x, kx, keyOf) ==
    IF sorted = <<>> THEN <<x>>
    ELSE IF keyOf[Head(sorted)] > kx
         THEN <<Head(sorted)>> \o InsertDescTiesReversed(Tail(sorted), x, kx, keyOf)
         ELSE <<x>> \o sorted

\* list.sort(key=..., reverse=True): a stable sort, equal keys keep their order.
RECURSIVE InsertDesc(_, _, _, _)
InsertDesc(sorted, x, kx, keyOf) ==
    IF sorted = <<>> THEN <<x>>
    ELSE IF keyOf[Head(sorted)] >= kx
         THEN <<Head(sorted)>> \o InsertDesc(Tail(sorted), x, kx, keyOf)
         ELSE <<x>> \o sorted

RECURSIVE SortDescFrom(_, _, _, _)
SortDescFrom(seq, k, acc, keyOf) ==
    IF k > Len(seq) THEN acc
    ELSE SortDescFrom(seq, k + 1, InsertDesc(acc, seq[k], keyOf[seq[k]], keyOf), keyOf)

SortDesc(seq, keyOf) == SortDescFrom(seq, 1, <<>>, keyOf)

Take(seq, n) == SubSeq(seq, 1, IF n < Len(seq) THEN n ELSE Len(seq))

----------------------------------------------------------------------------
\* client.recreate_collection(..., VectorParams(size=384, ...)): the vector
\* size ingestion gives the persisted collection.
IngestVectorSize == 384

\* No request is in progress, nothing has been set up and no session is open.
Idle ==
    /\ inflight = None
    /\ initializing = [begun |-> 0, configured |-> 0, keyed |-> 0, llm |-> 0,
                       embedded |-> 0, reported |-> 0]
    /\ setupCalls = 0
    /\ replaced = FALSE
    /\ session = None

\* ... and ingestion.py is not running.
Quiet ==
    /\ Idle
    /\ ingest = None

\* The pipeline is studied on a query engine that setup_query_engine has
\* built: the key is set, ./storage is populated, no serving surface runs.
NoSurface ==
    /\ env = [apiKey |-> TRUE, embedDim |-> IngestVectorSize, storage |-> "populated",
              index_store |-> TRUE, qdrant |-> TRUE]
    /\ proc = "engine"
    /\ lifecycle = "querying"
    /\ agent = None
    /\ resp = None
    /\ initFailed = FALSE
    /\ Quiet

PipelineInit ==
    /\ docstore = [n \in NodeIds |-> "text of " \o n]
    /\ vecAnswer \in ResultLists(MaxVec)
    /\ bm25Answer \in ResultLists(MaxBm)
    /\ top_n \in 0..MaxTopN
    /\ pc = "idle"
    /\ vector_nodes = <<>>
    /\ bm25_nodes = <<>>
    /\ node_dict = <<>>
    /\ i = 1
    /\ all_nodes = <<>>
    /\ returned = None
    /\ prev = None
    /\ reranked = <<>>
    /\ response = None
    /\ error = "none"
    /\ node_metadata = {}
    /\ invoked = <<>>

Init == PipelineInit /\ NoSurface

\* query_engine.query(...): a new query enters the pipeline.
Query ==
    /\ pc \in {"idle", "answered", "raised"}
    /\ pc' = "vector_retrieve"
    /\ prev' = IF returned # None THEN returned ELSE prev
    /\ returned' = None
    /\ node_dict' = <<>>
    /\ i' = 1
    /\ all_nodes' = <<>>
    /\ reranked' = <<>>
    /\ response' = None
    /\ error' = "none"
    /\ node_metadata' = {}
    /\ invoked' = <<>>
    /\ UNCHANGED <<surface, index, vector_nodes, bm25_nodes>>

\* Lines after the vector loop position k: the running loop, or what follows it.
NextLoopPc(vn, bn, phase, k) ==
    IF phase = "vector" /\ k <= Len(vn) THEN "vector_loop"
    ELSE IF phase = "vector" THEN (IF Len(bn) >= 1 THEN "bm25_loop" ELSE "sort")
    ELSE IF k <= Len(bn) THEN "bm25_loop" ELSE "sort"

\* Mutant of NewResults: the result objects of the first call are kept and
\* handed out again.
CachedResults(answer, held) == IF held = <<>> THEN answer ELSE held

\* A retriever's retrieve() builds new NodeWithScore objects at every call.
NewResults(answer, held) == answer

\* vector_nodes = self._vector_retriever.retrieve(query_bundle)
VectorRetrieve ==
    /\ pc = "vector_retrieve"
    /\ vector_nodes' = NewResults(vecAnswer, vector_nodes)
    /\ pc' = "bm25_retrieve"
    /\ invoked' = Append(invoked, "vector")
    /\ UNCHANGED <<surface, node_metadata, index, bm25_nodes, node_dict, i, all_nodes, returned, prev,
                   reranked, response, error>>

\* Mutant of VectorRetrieveRaises: a failed vector retrieval is tried again.
VectorRetrieveRetries ==
    /\ pc = "vector_retrieve"
    /\ Len(invoked) < 2
    /\ invoked' = Append(invoked, "vector")
    /\ UNCHANGED <<surface, node_metadata, index, pc, vector_nodes, bm25_nodes,
                   node_dict, i, all_nodes, returned, prev, reranked, response, error>>

\* ... and the vector retriever raises: the exception leaves _retrieve.
VectorRetrieveRaises ==
    /\ pc = "vector_retrieve"
    /\ pc' = "raised"
    /\ error' = "vector retriever"
    /\ invoked' = Append(invoked, "vector")
    /\ UNCHANGED <<surface, node_metadata, index, vector_nodes, bm25_nodes, node_dict, i, all_nodes,
                   returned, prev, reranked, response>>

\* bm25_nodes = self._bm25_retriever.retrieve(query_bundle); node_dict = {}
BM25Retrieve ==
    /\ pc = "bm25_retrieve"
    /\ bm25_nodes' = NewResults(bm25Answer, bm25_nodes)
    /\ node_dict' = <<>>
    /\ i' = 1
    /\ pc' = NextLoopPc(vector_nodes, bm25_nodes', "vector", 1)
    /\ invoked' = Append(invoked, "bm25")
    /\ UNCHANGED <<surface, node_metadata, index, vector_nodes, all_nodes, returned, prev, reranked,
                   response, error>>

\* Mutant of BM25RetrieveRaises: the failure is swallowed and the fusion goes on
\* with the vector results alone.
BM25RetrieveDegrades ==
    /\ pc = "bm25_retrieve"
    /\ error' = "bm25 retriever"
    /\ bm25_nodes' = <<>>
    /\ node_dict' = <<>>
    /\ i' = 1
    /\ pc' = NextLoopPc(vector_nodes, <<>>, "vector", 1)
    /\ invoked' = Append(invoked, "bm25")
    /\ UNCHANGED <<surface, node_metadata, index, vector_nodes, all_nodes, returned, prev, reranked, response>>

\* ... and the BM25 retriever raises: the exception leaves _retrieve.
BM25RetrieveRaises ==
    /\ pc = "bm25_retrieve"
    /\ pc' = "raised"
    /\ error' = "bm25 retriever"
    /\ invoked' = Append(invoked, "bm25")
    /\ UNCHANGED <<surface, node_metadata, index, vector_nodes, bm25_nodes, node_dict, i, all_nodes,
                   returned, prev, reranked, response>>

\* node_dict[node_id].score + node.score raises TypeError when one is None.
Raises(node) ==
    /\ Deref(node).id \in Keys(node_dict)
    /\ \/ Deref(Lookup(node_dict, Deref(node).id)).score = None
       \/ Deref(node).score = None

SetScore(r, s) ==
    IF r.src = "vector"
    THEN /\ vector_nodes' = [vector_nodes EXCEPT ![r.idx].score = s]
         /\ bm25_nodes' = bm25_nodes
    ELSE /\ bm25_nodes' = [bm25_nodes EXCEPT ![r.idx].score = s]
         /\ vector_nodes' = vector_nodes

\* Mutant of Fuse: the membership test is lost, every incoming node is inserted.
FuseAlwaysInserts(node) ==
    /\ node_dict' = Append(node_dict, [key |-> Deref(node).id, ref |-> node])
    /\ UNCHANGED <<vector_nodes, bm25_nodes>>

\* Mutant of Fuse: the mean is written to the incoming object, not to the one
\* the dict holds.
FuseOverwritesIncoming(node) ==
    LET node_id == Deref(node).id IN
    IF node_id \notin Keys(node_dict)
    THEN /\ node_dict' = Append(node_dict, [key |-> node_id, ref |-> node])
         /\ UNCHANGED <<vector_nodes, bm25_nodes>>
    ELSE IF Raises(node)
    THEN UNCHANGED <<node_dict, vector_nodes, bm25_nodes>>
    ELSE LET held == Lookup(node_dict, node_id) IN
         /\ SetScore(node, Some(Mean(Val(Deref(held).score), Val(Deref(node).score))))
         /\ node_dict' = node_dict

\* The body of either for-loop, for the incoming object `node`.
Fuse(node) ==
    LET node_id == Deref(node).id IN
    IF node_id \notin Keys(node_dict)
    THEN /\ node_dict' = Append(node_dict, [key |-> node_id, ref |-> node])
         /\ UNCHANGED <<vector_nodes, bm25_nodes>>
    ELSE IF Raises(node)
    THEN UNCHANGED <<node_dict, vector_nodes, bm25_nodes>>
    ELSE LET held == Lookup(node_dict, node_id) IN
         /\ SetScore(held, Some(Mean(Val(Deref(held).score), Val(Deref(node).score))))
         /\ node_dict' = node_dict

\* for node in vector_nodes: ...
VectorLoop ==
    /\ pc = "vector_loop"
    /\ Fuse(VRef(i))
    /\ IF Raises(VRef(i))
       THEN pc' = "raised" /\ error' = "TypeError" /\ i' = 1
       ELSE /\ pc' = NextLoopPc(vector_nodes, bm25_nodes, "vector", i + 1)
            /\ i' = IF pc' = "vector_loop" THEN i + 1 ELSE 1
            /\ error' = error
    /\ UNCHANGED <<surface, node_metadata, invoked, index, all_nodes, returned, prev, reranked, response>>

\* for node in bm25_nodes: ...
BM25Loop ==
    /\ pc = "bm25_loop"
    /\ Fuse(BRef(i))
    /\ IF Raises(BRef(i))
       THEN pc' = "raised" /\ error' = "TypeError" /\ i' = 1
       ELSE /\ pc' = NextLoopPc(vector_nodes, bm25_nodes, "bm25", i + 1)
            /\ i' = IF pc' = "bm25_loop" THEN i + 1 ELSE 1
            /\ error' = error
    /\ UNCHANGED <<surface, node_metadata, invoked, index, all_nodes, returned, prev, reranked, response>>

DictValues(d) == [k \in 1..Len(d) |-> d[k].ref]

FusionKeys(refs) ==
    [r \in {refs[k] : k \in 1..Len(refs)} |-> SortKey(Deref(r).score)]

\* Mutant of SortAndReturn: the sorted list is cut to RERANKER_TOP_N.
SortAndReturnTruncated ==
    /\ pc = "sort"
    /\ all_nodes' = Take(SortDesc(DictValues(node_dict), FusionKeys(DictValues(node_dict))),
                         top_n)
    /\ returned' = Some(Values(all_nodes'))
    /\ pc' = "retrieved"
    /\ UNCHANGED <<surface, node_metadata, invoked, index, vector_nodes, bm25_nodes, node_dict, i, prev, reranked,
                   response, error>>

\* Mutant of SortAndReturn: an empty candidate set is an error.
SortAndReturnRejectsEmpty ==
    /\ pc = "sort"
    /\ IF node_dict = <<>>
       THEN /\ pc' = "raised"
            /\ error' = "empty result"
            /\ UNCHANGED <<all_nodes, returned>>
       ELSE /\ all_nodes' = SortDesc(DictValues(node_dict), FusionKeys(DictValues(node_dict)))
            /\ returned' = Some(Values(all_nodes'))
            /\ pc' = "retrieved"
            /\ error' = error
    /\ UNCHANGED <<surface, node_metadata, invoked, index, vector_nodes, bm25_nodes, node_dict, i, prev, reranked, response>>

\* all_nodes = list(node_dict.values()); all_nodes.sort(...); return all_nodes
SortAndReturn ==
    /\ pc = "sort"
    /\ all_nodes' = SortDesc(DictValues(node_dict), FusionKeys(DictValues(node_dict)))
    /\ returned' = Some(Values(all_nodes'))
    /\ pc' = "retrieved"
    /\ UNCHANGED <<surface, node_metadata, invoked, index, vector_nodes, bm25_nodes, node_dict, i, prev, reranked,
                   response, error>>

Retrieve ==
    \/ VectorRetrieve
    \/ VectorRetrieveRaises
    \/ BM25Retrieve
    \/ BM25RetrieveRaises
    \/ VectorLoop
    \/ BM25Loop
    \/ SortAndReturn

Range(seq) == {seq[k] : k \in 1..Len(seq)}

\* Mutant of RerankerTopN: off by one.
RerankerTopNPlusOne == top_n + 1

\* ColbertRerank(top_n=config.RERANKER_TOP_N, ...)
RerankerTopN == top_n

\* Mutant of KeepRetrievalScore: keep_retrieval_score=False, nothing is saved.
DropRetrievalScore(given) == {}

\* keep_retrieval_score=True: node.node.metadata["retrieval_score"] = node.score
\* for every node the re-ranker was given, before the score is replaced.
KeepRetrievalScore(given) ==
    {[ref |-> r, key |-> "retrieval_score", value |-> Deref(r).score] : r \in given}

\* node.score = float(score) for every node the re-ranker was given.
Rescore(heap, src, given, sc) ==
    [k \in 1..Len(heap) |->
        IF [src |-> src, idx |-> k] \in given
        THEN [heap[k] EXCEPT !.score = Some(sc[heap[k].id])]
        ELSE heap[k]]

\* Mutant of Rerank: the cross-encoder is run on an empty batch and raises.
RerankRejectsEmpty ==
    /\ pc = "retrieved"
    /\ IF all_nodes = <<>>
       THEN /\ pc' = "raised"
            /\ error' = "reranker"
            /\ UNCHANGED <<vector_nodes, bm25_nodes, reranked, node_metadata>>
       ELSE /\ node_metadata' = KeepRetrievalScore(Range(all_nodes))
            /\ \E sc \in [NodeIds -> RerankScores] :
                /\ vector_nodes' = Rescore(vector_nodes, "vector", Range(all_nodes), sc)
                /\ bm25_nodes' = Rescore(bm25_nodes, "bm25", Range(all_nodes), sc)
                /\ reranked' = Take(SortDesc(all_nodes,
                                       [r \in Range(all_nodes) |-> sc[Deref(r).id]]),
                                    RerankerTopN)
            /\ pc' = "reranked"
            /\ error' = error
    /\ UNCHANGED <<surface, invoked, index, node_dict, i, all_nodes, returned, prev, response>>

\* node_postprocessors=[reranker]: ColbertRerank._postprocess_nodes returns []
\* for no nodes, otherwise gives every node the cross-encoder's score (with
\* keep_retrieval_score=True after saving the old one in the node's metadata)
\* and returns sorted(nodes, key=score, reverse=True)[:top_n].
Rerank ==
    /\ pc = "retrieved"
    /\ IF all_nodes = <<>>
       THEN /\ reranked' = <<>>
            /\ UNCHANGED <<vector_nodes, bm25_nodes, node_metadata>>
       ELSE /\ node_metadata' = KeepRetrievalScore(Range(all_nodes))
            /\ \E sc \in [NodeIds -> RerankScores] :
                /\ vector_nodes' = Rescore(vector_nodes, "vector", Range(all_nodes), sc)
                /\ bm25_nodes' = Rescore(bm25_nodes, "bm25", Range(all_nodes), sc)
                /\ reranked' = Take(SortDesc(all_nodes,
                                       [r \in Range(all_nodes) |-> sc[Deref(r).id]]),
                                    RerankerTopN)
    /\ pc' = "reranked"
    /\ UNCHANGED <<surface, invoked, index, node_dict, i, all_nodes, returned, prev, response, error>>

\* RetrieverQueryEngine: the response synthesizer answers "Empty Response"
\* without calling the LLM when it is given no nodes.
Synthesize ==
    /\ pc = "reranked"
    /\ response' = IF reranked = <<>> THEN Some("Empty Response") ELSE Some("answer")
    /\ pc' = "answered"
    /\ UNCHANGED <<surface, node_metadata, invoked, index, vector_nodes, bm25_nodes, node_dict, i, all_nodes,
                   returned, prev, reranked, error>>

\* The LLM call of the synthesizer raises (quota, rate limit, anything else).
SynthesizeRaises ==
    /\ pc = "reranked"
    /\ reranked # <<>>
    /\ error' \in {"rate limit", "llm"}
    /\ pc' = "raised"
    /\ UNCHANGED <<surface, node_metadata, invoked, index, vector_nodes, bm25_nodes, node_dict, i, all_nodes,
                   returned, prev, reranked, response>>

Next ==
    \/ Query
    \/ Retrieve
    \/ Rerank
    \/ Synthesize
    \/ SynthesizeRaises

Spec == Init /\ [][Next]_vars

----------------------------------------------------------------------------
(***************************************************************************)
(* Start-up and the serving surfaces: setup_query_engine and               *)
(* verify_storage (src/retrieval.py), setup_agent (src/agent.py), the      *)
(* Flask server (src/server.py), the Gradio app (src/app.py) and the       *)
(* command-line loop (src/main.py).  One process runs one entry point.     *)
(* A handler is one action; what it answers is computed by an operator     *)
(* from the module-level agent, the request and the outcome of             *)
(* agent.chat.  Texts are sequences of words, so that str(e) inside an     *)
(* f-string and a substring test on str(e).lower() are what they are in    *)
(* the code.                                                               *)
(***************************************************************************)

pipeline == <<index, pc, vector_nodes, bm25_nodes, node_dict, i, all_nodes,
              returned, prev, reranked, response, error, node_metadata, invoked>>

\* Dimensions of the models EMBED_MODEL can name: the default
\* all-MiniLM-L6-v2 and a model of twice that size (all-mpnet-base-v2).
EmbedDims == {IngestVectorSize, 2 * IngestVectorSize}

\* What ./storage holds.  "emptied": docstore.json has entries when
\* verify_storage reads it and none when SimpleDocumentStore loads it
\* (ingestion persisting in between).
StorageStates ==
    {"no_dir", "no_docstore", "malformed", "no_data_key", "no_entries",
     "emptied", "populated"}

\* The environment of a process: the API key, the embedding model, what
\* ./storage holds of the docstore, and whether ./storage/index_store.json
\* and ./storage/qdrant_db exist (they lie inside ./storage).
Env ==
    {e \in [apiKey : BOOLEAN, embedDim : EmbedDims, storage : StorageStates,
            index_store : BOOLEAN, qdrant : BOOLEAN] :
        e.storage = "no_dir" => (~e.index_store /\ ~e.qdrant)}

Procs == {"server", "app", "cli", "research"}

\* os.path.exists(config.STORAGE_DIR)
DirExists(st) == st # "no_dir"

\* os.path.exists(config.DOCSTORE_PATH)
DocstoreExists(st) == st \notin {"no_dir", "no_docstore"}

\* os.path.exists(config.QDRANT_PATH)
QdrantExists(e) == e.qdrant

\* os.path.exists of index_store.json in STORAGE_DIR
IndexStoreExists(e) == e.index_store

\* QdrantClient(path=config.QDRANT_PATH): the local store is opened, and
\* made where there is none (with the directories above it).
OpensQdrant(e) ==
    [e EXCEPT !.qdrant = TRUE,
              !.storage = IF @ = "no_dir" THEN "no_docstore" ELSE @]

\* "docstore/data" not in data or len(data.get("docstore/data", {})) == 0
NoDocstoreData(st) == st \in {"no_data_key", "no_entries"}

\* len(docstore.docs) after SimpleDocumentStore.from_persist_path
LoadedDocCount(st) == IF st = "populated" THEN 1 ELSE 0

\* os.makedirs(STORAGE_DIR, exist_ok=True) at the import of config
MkStorageDir(e) ==
    [e EXCEPT !.storage = IF @ = "no_dir" THEN "no_docstore" ELSE @]

Exc(type, text) == [type |-> type, text |-> text]

\* str(e)
Str(e) == e.text

KeyMissing == Exc("ValueError", <<"GOOGLE_API_KEY not found in environment variables">>)

\* verify_storage(): None when it passes, else the exception it raises.
VerifyStorage(e) ==
    IF ~DirExists(e.storage)
    THEN Some(Exc("FileNotFoundError", <<"Storage directory not found">>))
    ELSE IF ~DocstoreExists(e.storage)
    THEN Some(Exc("FileNotFoundError", <<"Docstore file not found">>))
    ELSE IF e.storage = "malformed"
    THEN Some(Exc("JSONDecodeError", <<"Expecting value">>))
    ELSE IF NoDocstoreData(e.storage)
    THEN Some(Exc("ValueError", <<"Docstore exists but contains no documents">>))
    ELSE None

Loaded == <<"llm", "embed_model", "docstore">>

Engine ==
    <<"qdrant_client", "vector_store", "index", "vector_retriever",
      "bm25_retriever", "hybrid_retriever", "reranker", "query_engine">>

\* Mutant of SetupQueryEngine: the storage is verified after the engine is
\* assembled.
SetupQueryEngineVerifiesLast(e) ==
    IF ~e.apiKey
    THEN [raised |-> Some(KeyMissing), built |-> <<>>, env |-> e]
    ELSE IF VerifyStorage(e) # None
    THEN [raised |-> VerifyStorage(e), built |-> Loaded \o Engine,
          env |-> OpensQdrant(e)]
    ELSE IF LoadedDocCount(e.storage) = 0
    THEN [raised |-> Some(Exc("ValueError",
                              <<"Docstore loaded but contains no documents">>)),
          built |-> Loaded \o Engine, env |-> OpensQdrant(e)]
    ELSE [raised |-> None, built |-> Loaded \o Engine, env |-> OpensQdrant(e)]

\* setup_query_engine(): the exception it raises, if any, what it has built
\* by then, in order, and the environment it leaves. With the client and the
\* vector store made, StorageContext.from_defaults(persist_dir=...) opens
\* index_store.json and raises where there is none.
SetupQueryEngine(e) ==
    IF VerifyStorage(e) # None
    THEN [raised |-> VerifyStorage(e), built |-> <<>>, env |-> e]
    ELSE IF ~e.apiKey
    THEN [raised |-> Some(KeyMissing), built |-> <<>>, env |-> e]
    ELSE IF LoadedDocCount(e.storage) = 0
    THEN [raised |-> Some(Exc("ValueError",
                              <<"Docstore loaded but contains no documents">>)),
          built |-> Loaded, env |-> e]
    ELSE IF ~IndexStoreExists(e)
    THEN [raised |-> Some(Exc("FileNotFoundError",
                              <<"[Errno 2] No such file or directory: ",
                                "index_store.json">>)),
          built |-> Loaded \o SubSeq(Engine, 1, 2), env |-> OpensQdrant(e)]
    ELSE [raised |-> None, built |-> Loaded \o Engine, env |-> OpensQdrant(e)]

\* setup_agent(): the key, Settings.llm and Settings.embed_model where the
\* process has not assigned them yet (the callers in server.py, app.py and
\* main.py have, before they call it), then setup_query_engine, the tool
\* and the agent.
SetupAgent(e, assigned) ==
    IF ~e.apiKey
    THEN [raised |-> Some(KeyMissing), built |-> <<>>, env |-> e]
    ELSE LET q == SetupQueryEngine(e)
             settings == IF assigned THEN <<>> ELSE <<"llm", "embed_model">>
         IN
         IF q.raised # None
         THEN [raised |-> q.raised, built |-> settings \o q.built, env |-> q.env]
         ELSE [raised |-> None,
               built |-> settings \o q.built \o <<"tool", "agent">>,
               env |-> q.env]

TheAgent == Some("ReActAgent")

\* What agent.chat can raise: a quota or rate-limit failure of the LLM
\* provider, whose message names it or not, or anything else, whose message
\* has the word quota (a full disk under the tools' caches) or not.
AgentErrors ==
    {Exc("ResourceExhausted", <<"429", "Quota", "exceeded">>),
     Exc("ResourceExhausted", <<"Service unavailable">>),
     Exc("TooManyRequests", <<"Rate limit", "reached">>),
     Exc("OSError", <<"[Errno 122]", "Disk", "quota", "exceeded">>),
     Exc("RuntimeError", <<"Connection", "reset">>)}

\* agent.chat(query) returns (None) or raises (Some(e)).
AgentChatOutcomes == {None} \cup {Some(e) : e \in AgentErrors}

\* str.lower() on one word: the words of the messages of this module that
\* have a capital letter, each with its lower-case form; every other word
\* of the module ("429", "quota", "exceeded", "reached", "reset", ...) has
\* none and is its own lower-case form.
LowerWord(w) ==
    CASE w = "Quota" -> "quota"
      [] w = "Rate limit" -> "rate limit"
      [] w = "Connection" -> "connection"
      [] w = "Disk" -> "disk"
      [] w = "Service unavailable" -> "service unavailable"
      [] w = "[Errno 122]" -> "[errno 122]"
      [] w = "[Errno 17] File exists: 'exports'" -> "[errno 17] file exists: 'exports'"
      [] w = "[Errno 13] Permission denied: 'nougat'"
             -> "[errno 13] permission denied: 'nougat'"
      [] w = "GOOGLE_API_KEY not found in environment variables"
             -> "google_api_key not found in environment variables"
      [] w = "[Errno 2] No such file or directory: "
             -> "[errno 2] no such file or directory: "
      [] w = "API key not valid" -> "api key not valid"
      [] w = "Can't load the model" -> "can't load the model"
      [] w = "Storage directory not found" -> "storage directory not found"
      [] w = "Docstore file not found" -> "docstore file not found"
      [] w = "Expecting value" -> "expecting value"
      [] w = "Docstore exists but contains no documents"
             -> "docstore exists but contains no documents"
      [] w = "Docstore loaded but contains no documents"
             -> "docstore loaded but contains no documents"
      [] w = "Failed to decode JSON object" -> "failed to decode json object"
      [] w = "'NoneType' object has no attribute 'chat'"
             -> "'nonetype' object has no attribute 'chat'"
      [] w = "The Qdrant storage path was not found"
             -> "the qdrant storage path was not found"
      [] w = "No files found in " -> "no files found in "
      [] w = "No documents could be loaded. Check your PDF files."
             -> "no documents could be loaded. check your pdf files."
      [] w = "No nodes were created from documents. Documents might be empty."
             -> "no nodes were created from documents. documents might be empty."
      [] OTHER -> w

\* str.lower()
Lower(text) == [k \in 1..Len(text) |-> LowerWord(text[k])]

\* w in text
Contains(text, w) == \E k \in 1..Len(text) : text[k] = w

\* "quota" in str(e).lower() or "rate limit" in str(e).lower()
MentionsRateLimit(e) ==
    Contains(Lower(Str(e)), "quota") \/ Contains(Lower(Str(e)), "rate limit")

\* What a handler answers: the route, the HTTP status (None outside HTTP),
\* the keys of the JSON body, its text, the exception the handler caught,
\* the exception that left the handler, how often it called agent.chat, the
\* request it answers (where the handler reads one), and for a generator
\* the values it yielded one after the other and the value it returned.
Reply(route, status, fields, text) ==
    [route |-> route, status |-> status, fields |-> fields, text |-> text,
     caught |-> None, escaped |-> None, chatCalls |-> 0,
     request |-> None, yields |-> <<>>, result |-> None,
     afterFailedInit |-> FALSE, duringChat |-> FALSE]

\* The answer as recorded: with whether an initialization had failed before
\* and whether a /chat query was in progress when it was given.
Recorded(r) ==
    Some([r EXCEPT !.afterFailedInit = initFailed, !.duringChat = (inflight # None)])

\* setup_agent has been invoked k more times; the count stops at its bound.
Counted(n, k) == IF n + k < MaxSetupCalls THEN n + k ELSE MaxSetupCalls

----------------------------------------------------------------------------
\* The Flask server (src/server.py).

\* initialize_agent(): the exception it re-raises, if any, the agent, how
\* often it invoked setup_agent, and the environment it leaves.
ServerInitializeAgent(e, ag) ==
    IF ag # None
    THEN [raised |-> None, agent |-> ag, setups |-> 0, env |-> e]
    ELSE IF ~e.apiKey
    THEN [raised |-> Some(KeyMissing), agent |-> None, setups |-> 0, env |-> e]
    ELSE LET r == SetupAgent(MkStorageDir(e), TRUE) IN
         IF r.raised # None
         THEN [raised |-> r.raised, agent |-> None, setups |-> 1, env |-> r.env]
         ELSE [raised |-> None, agent |-> TheAgent, setups |-> 1, env |-> r.env]

\* Mutant of ServerStart: the failure of initialize_agent is logged and
\* swallowed, the server comes up without an agent.
ServerStartSwallows ==
    /\ proc = "server"
    /\ lifecycle = "start"
    /\ LET r == ServerInitializeAgent(MkStorageDir(env), agent) IN
        /\ env' = r.env
        /\ agent' = r.agent
        /\ initFailed' = (r.raised # None)
        /\ lifecycle' = "serving"
        /\ setupCalls' = Counted(setupCalls, r.setups)
    /\ UNCHANGED <<proc, resp, pipeline, inflight, initializing,
                replaced, session, ingest>>

\* The module is imported (gunicorn) or run: config is imported, then
\* initialize_agent() is called; an exception ends the process.
ServerStart ==
    /\ proc = "server"
    /\ lifecycle = "start"
    /\ LET r == ServerInitializeAgent(MkStorageDir(env), agent) IN
        /\ env' = r.env
        /\ agent' = r.agent
        /\ initFailed' = (r.raised # None)
        /\ lifecycle' = IF r.raised # None THEN "down" ELSE "serving"
        /\ setupCalls' = Counted(setupCalls, r.setups)
    /\ UNCHANGED <<proc, resp, pipeline, inflight, initializing,
                replaced, session, ingest>>

\* GET /
HealthCheck ==
    /\ proc = "server"
    /\ lifecycle = "serving"
    /\ resp' = Recorded(Reply("/", Some(200),
                              {"status", "message", "agent_initialized"},
                              <<"Codemate Backend server is running">>))
    /\ UNCHANGED <<env, proc, lifecycle, agent, initFailed, pipeline, inflight, initializing,
                setupCalls, replaced, session, ingest>>

\* GET /health
Health ==
    /\ proc = "server"
    /\ lifecycle = "serving"
    /\ resp' = Recorded(IF agent = None
                        THEN Reply("/health", Some(503), {"status", "reason"},
                                   <<"Agent not initialized">>)
                        ELSE Reply("/health", Some(200), {"status"}, <<"healthy">>))
    /\ UNCHANGED <<env, proc, lifecycle, agent, initFailed, pipeline, inflight, initializing,
                setupCalls, replaced, session, ingest>>

\* ingestion.py has a __main__ block and no function main.
IngestionHasMain == FALSE

NoMain == Exc("AttributeError", <<"module 'ingestion' has no attribute 'main'">>)

\* python ingestion.py, or what ingestion.main() would do: the index is
\* built and persisted.
Ingested(e) ==
    [e EXCEPT !.storage = "populated", !.index_store = TRUE, !.qdrant = TRUE]

\* ingest_data(): the answer, the agent and the environment it leaves, and
\* how often it invoked setup_agent.
IngestDataResult(ag, e) ==
    LET failed(x) ==
            [reply |-> [Reply("/ingest", Some(500), {"error"},
                              <<"Data ingestion failed: ">> \o Str(x))
                        EXCEPT !.caught = Some(x)],
             agent |-> ag, env |-> e, setups |-> 0]
    IN  IF ~IngestionHasMain THEN failed(NoMain)
        ELSE IF ~e.apiKey THEN failed(KeyMissing)
        ELSE IF ag = None /\ SetupAgent(Ingested(e), TRUE).raised # None
        THEN [failed(Val(SetupAgent(Ingested(e), TRUE).raised))
              EXCEPT !.env = SetupAgent(Ingested(e), TRUE).env, !.setups = 1]
        ELSE [reply |-> Reply("/ingest", Some(200), {"message"},
                              <<"Data ingestion completed successfully">>),
              agent |-> TheAgent, env |-> Ingested(e),
              setups |-> IF ag = None THEN 1 ELSE 0]

\* POST /ingest. The handler takes no lock and looks at no other request:
\* it logs "Starting data ingestion process..." and calls ingestion.main()
\* at once, whatever else the threaded server is handling.
IngestData ==
    /\ proc = "server"
    /\ lifecycle = "serving"
    /\ LET r == IngestDataResult(agent, env) IN
        /\ resp' = Recorded(r.reply)
        /\ agent' = r.agent
        /\ env' = r.env
        /\ setupCalls' = Counted(setupCalls, r.setups)
    /\ UNCHANGED <<proc, lifecycle, initFailed, pipeline, inflight, initializing,
                replaced, session, ingest>>

\* A POST /chat request: whether its content type is JSON, and its body.
ChatRequests ==
    [is_json : BOOLEAN,
     body : {"malformed", "null", "list", "no_query", "empty_query", "query"}]

\* Exceptions raised outside the try block of chat_endpoint; Flask answers
\* them with its own error page.
BadRequest == Exc("BadRequest", <<"Failed to decode JSON object">>)
NoGet == Exc("AttributeError", <<"object has no attribute 'get'">>)

\* chat_endpoint()
ChatEndpointResponse(ag, rq, out) ==
    IF ag = None
    THEN Reply("/chat", Some(503), {"error"}, <<"Agent not initialized">>)
    ELSE IF ~rq.is_json
    THEN Reply("/chat", Some(400), {"error"}, <<"Request must be JSON">>)
    ELSE IF rq.body = "malformed"
    THEN [Reply("/chat", Some(400), {}, <<"Bad Request">>)
          EXCEPT !.escaped = Some(BadRequest)]
    ELSE IF rq.body \in {"null", "list"}
    THEN [Reply("/chat", Some(500), {}, <<"Internal Server Error">>)
          EXCEPT !.escaped = Some(NoGet)]
    ELSE IF rq.body \in {"no_query", "empty_query"}
    THEN Reply("/chat", Some(400), {"error"}, <<"Missing 'query' in request body">>)
    ELSE IF out = None
    THEN [Reply("/chat", Some(200), {"response"}, <<"answer">>)
          EXCEPT !.chatCalls = 1]
    ELSE [Reply("/chat", Some(500), {"error"},
                <<"An internal error occurred while processing your request.">>)
          EXCEPT !.caught = out, !.chatCalls = 1]

\* The request reaches the call agent.chat(query) of chat_endpoint.
ReachesAgent(ag, rq) == ChatEndpointResponse(ag, rq, None).chatCalls = 1

\* POST /chat, up to the call of agent.chat: a rejected request is answered
\* at once, an accepted one is in progress while the agent works on it. One
\* call of agent.chat is in progress at a time.
ChatEndpoint ==
    /\ proc = "server"
    /\ lifecycle = "serving"
    /\ \E rq \in ChatRequests :
        IF ReachesAgent(agent, rq)
        THEN /\ inflight = None
             /\ inflight' = Some(rq)
             /\ resp' = resp
        ELSE /\ resp' = Recorded([ChatEndpointResponse(agent, rq, None)
                                  EXCEPT !.request = Some(rq)])
             /\ inflight' = inflight
    /\ UNCHANGED <<env, proc, lifecycle, agent, initFailed, pipeline,
                initializing, setupCalls, replaced, session, ingest>>

\* POST /chat, from the return or the exception of agent.chat on.
ChatEndpointReturns ==
    /\ proc = "server"
    /\ lifecycle = "serving"
    /\ inflight # None
    /\ \E out \in AgentChatOutcomes :
        resp' = Some([Val(Recorded(ChatEndpointResponse(agent, Val(inflight), out)))
                      EXCEPT !.request = inflight])
    /\ inflight' = None
    /\ UNCHANGED <<env, proc, lifecycle, agent, initFailed, pipeline,
                initializing, setupCalls, replaced, session, ingest>>

ServerNext ==
    \/ ServerStart
    \/ HealthCheck
    \/ Health
    \/ IngestData
    \/ ChatEndpoint
    \/ ChatEndpointReturns

----------------------------------------------------------------------------
\* The Gradio app (src/app.py).

\* demo.launch(): the interface is served whether or not an agent exists.
AppLaunch ==
    /\ proc = "app"
    /\ lifecycle = "start"
    /\ lifecycle' = "serving"
    /\ UNCHANGED <<env, proc, agent, resp, initFailed, pipeline, inflight, initializing,
                setupCalls, replaced, session, ingest>>

\* `import config` has run in this process: it runs inside the first
\* initialize_agent that gets past its first yield.
ConfigImported ==
    \/ initializing.configured + initializing.keyed + initializing.llm
           + initializing.embedded + initializing.reported > 0
    \/ initFailed
    \/ agent # None

\* The value of `return "Agent already initialized and ready!"`.
AlreadyInitialized == <<"Agent already initialized and ready!">>

\* A generator that yielded `yielded` and then returned `value`: the status
\* display shows the last value yielded (nothing when there is none); the
\* value of the return statement ends up in StopIteration and is not among
\* the values the call produces.
Generated(yielded, value) ==
    [Reply("initialize_agent", None, {},
           IF yielded = <<>> THEN <<>> ELSE yielded[Len(yielded)])
     EXCEPT !.yields = yielded, !.result = value]

\* The progress values of initialize_agent, in order (lines 24, 31, 39, 42
\* and 45).
Progress ==
    << <<"Starting initialization...">>,
       <<"Loading configuration...">>,
       <<"Initializing Gemini LLM...">>,
       <<"Loading embedding model (this may take 2-3 minutes)...">>,
       <<"Setting up research agent...">> >>

\* The except clause of initialize_agent: after the values yielded so far
\* the call yields the text of the exception as its last value.
AppInitializeRaised(yielded, x) ==
    [Generated(Append(yielded, <<"Error initializing agent: ">> \o Str(x)), None)
     EXCEPT !.caught = Some(x)]

\* initialize_agent(), a generator, with constructors that raise nothing:
\* the values it yields, the exception it caught, the agent it leaves and
\* how often it invoked setup_agent.
AppInitializeAgent(e, ag) ==
    IF ag # None
    THEN [reply |-> Generated(<<>>, Some(AlreadyInitialized)),
          agent |-> ag, failed |-> FALSE, setups |-> 0, env |-> e]
    ELSE IF ~e.apiKey
    THEN [reply |-> Generated(Append(SubSeq(Progress, 1, 2),
                        <<"GOOGLE_API_KEY not found. Please set it in Space Settings">>),
                        None),
          agent |-> None, failed |-> TRUE, setups |-> 0, env |-> e]
    ELSE LET r == SetupAgent(e, TRUE) IN
         IF r.raised # None
         THEN [reply |-> AppInitializeRaised(Progress, Val(r.raised)),
               agent |-> None, failed |-> TRUE, setups |-> 1, env |-> r.env]
         ELSE [reply |-> Generated(Append(Progress,
                   <<"Agent initialized successfully! You can now ask questions.">>),
                   None),
               agent |-> TheAgent, failed |-> FALSE, setups |-> 1, env |-> r.env]

\* Calls of initialize_agent that have not ended, by the yield they are
\* suspended at: line 24 (begun), 31 (configured), 39 (keyed), 42 (llm),
\* 45 (embedded), and the last value of the call, 36, 49 or 53 (reported).
InProgress ==
    initializing.begun + initializing.configured + initializing.keyed
        + initializing.llm + initializing.embedded + initializing.reported

\* init_btn.click(fn=initialize_agent, ...), up to the first yield: the test
\* `agent is not None` ends the call, or the call goes on to initialize.
\* Nothing in app.py keeps a second click from getting here before the
\* first call has assigned the agent.
AppInitialize ==
    /\ proc = "app"
    /\ lifecycle = "serving"
    /\ IF agent # None
       THEN /\ resp' = Recorded(AppInitializeAgent(env, agent).reply)
            /\ initializing' = initializing
       ELSE /\ InProgress < MaxInits
            /\ initializing' = [initializing EXCEPT !.begun = @ + 1]
            /\ resp' = resp
    /\ UNCHANGED <<env, proc, lifecycle, agent, initFailed, pipeline, inflight,
                setupCalls, replaced, session, ingest>>

\* From the first yield to the second: the imports, that of config among
\* them, which makes the directories when it is the first in the process.
AppInitializeImports ==
    /\ proc = "app"
    /\ lifecycle = "serving"
    /\ initializing.begun > 0
    /\ initializing' = [initializing EXCEPT !.begun = @ - 1, !.configured = @ + 1]
    /\ env' = IF ConfigImported THEN env ELSE MkStorageDir(env)
    /\ UNCHANGED <<proc, lifecycle, agent, resp, initFailed, pipeline, inflight,
                setupCalls, replaced, session, ingest>>

\* From the second yield on: the key is read; without it the call yields
\* the error (36) as its last value, with it "Initializing Gemini LLM..." (39).
AppInitializeReadsKey ==
    /\ proc = "app"
    /\ lifecycle = "serving"
    /\ initializing.configured > 0
    /\ IF env.apiKey
       THEN /\ initializing' = [initializing EXCEPT !.configured = @ - 1,
                                                    !.keyed = @ + 1]
            /\ UNCHANGED <<resp, initFailed>>
       ELSE /\ initializing' = [initializing EXCEPT !.configured = @ - 1,
                                                    !.reported = @ + 1]
            /\ initFailed' = TRUE
            /\ resp' = Recorded(AppInitializeAgent(env, None).reply)
    /\ UNCHANGED <<env, proc, lifecycle, agent, pipeline, inflight,
                setupCalls, replaced, session, ingest>>

\* From line 39 on: Gemini(...), which asks the provider about the model,
\* returns, Settings.llm is set and the call yields line 42; or it raises,
\* and the except clause yields the error (53) as the last value of the
\* call, the agent left as it is.
AppInitializeSetsLlm ==
    /\ proc = "app"
    /\ lifecycle = "serving"
    /\ initializing.keyed > 0
    /\ \E out \in {None, Some(Exc("InvalidArgument", <<"API key not valid">>))} :
        IF out = None
        THEN /\ initializing' = [initializing EXCEPT !.keyed = @ - 1, !.llm = @ + 1]
             /\ UNCHANGED <<resp, initFailed>>
        ELSE /\ initializing' = [initializing EXCEPT !.keyed = @ - 1,
                                                     !.reported = @ + 1]
             /\ initFailed' = TRUE
             /\ resp' = Recorded(AppInitializeRaised(SubSeq(Progress, 1, 3), Val(out)))
    /\ UNCHANGED <<env, proc, lifecycle, agent, pipeline, inflight,
                setupCalls, replaced, session, ingest>>

\* From line 42 on: HuggingFaceEmbedding(...), which loads the model from
\* the hub or its cache, returns, Settings.embed_model is set and the call
\* yields line 45; or it raises, and the except clause yields the error (53)
\* as the last value of the call, the agent left as it is.
AppInitializeSetsEmbedModel ==
    /\ proc = "app"
    /\ lifecycle = "serving"
    /\ initializing.llm > 0
    /\ \E out \in {None, Some(Exc("OSError", <<"Can't load the model">>))} :
        IF out = None
        THEN /\ initializing' = [initializing EXCEPT !.llm = @ - 1, !.embedded = @ + 1]
             /\ UNCHANGED <<resp, initFailed>>
        ELSE /\ initializing' = [initializing EXCEPT !.llm = @ - 1,
                                                     !.reported = @ + 1]
             /\ initFailed' = TRUE
             /\ resp' = Recorded(AppInitializeRaised(SubSeq(Progress, 1, 4), Val(out)))
    /\ UNCHANGED <<env, proc, lifecycle, agent, pipeline, inflight,
                setupCalls, replaced, session, ingest>>

\* From line 45 to the last value of the call: setup_agent and the
\* assignment of the global, then the yield of line 49, or the exception
\* caught and the yield of line 53.
AppInitializeFinishes ==
    /\ proc = "app"
    /\ lifecycle = "serving"
    /\ initializing.embedded > 0
    /\ initializing' = [initializing EXCEPT !.embedded = @ - 1, !.reported = @ + 1]
    /\ LET r == AppInitializeAgent(env, None) IN
        /\ env' = r.env
        /\ agent' = IF r.agent # None THEN r.agent ELSE agent
        /\ replaced' = (replaced \/ (agent # None /\ r.agent # None))
        /\ setupCalls' = Counted(setupCalls, r.setups)
        /\ initFailed' = (initFailed \/ r.failed)
        /\ resp' = Recorded(r.reply)
    /\ UNCHANGED <<proc, lifecycle, pipeline, inflight, session, ingest>>

\* The resumption after the last value: the generator ends (after line 36
\* by `return`, after 49 at the end of the try, after 53 with the print of
\* line 54) and the call is over.
AppInitializeEnds ==
    /\ proc = "app"
    /\ lifecycle = "serving"
    /\ initializing.reported > 0
    /\ initializing' = [initializing EXCEPT !.reported = @ - 1]
    /\ UNCHANGED <<env, proc, lifecycle, agent, resp, initFailed, pipeline, inflight,
                setupCalls, replaced, session, ingest>>

\* What the user types into the message box.
Messages == {"", "question"}

\* Mutant of ChatWithAgent: the test `agent is None` is lost and the call
\* agent.chat on None raises inside the try block.
ChatWithAgentUnguarded(ag, message, out) ==
    IF message = ""
    THEN Reply("chat_with_agent", None, {}, <<"Please enter a question.">>)
    ELSE IF ag = None
    THEN [Reply("chat_with_agent", None, {},
                <<"Error: ", "'NoneType' object has no attribute 'chat'">>)
          EXCEPT !.caught = Some(Exc("AttributeError",
                                     <<"'NoneType' object has no attribute 'chat'">>)),
                 !.chatCalls = 1]
    ELSE IF out = None
    THEN [Reply("chat_with_agent", None, {}, <<"answer">>) EXCEPT !.chatCalls = 1]
    ELSE [Reply("chat_with_agent", None, {}, <<"Error: ">> \o Str(Val(out)))
          EXCEPT !.caught = out, !.chatCalls = 1]

\* chat_with_agent(message, history)
ChatWithAgent(ag, message, out) ==
    IF ag = None
    THEN Reply("chat_with_agent", None, {},
               <<"Agent not initialized. Please click 'Initialize Agent' first.">>)
    ELSE IF message = ""
    THEN Reply("chat_with_agent", None, {}, <<"Please enter a question.">>)
    ELSE IF out = None
    THEN [Reply("chat_with_agent", None, {}, <<"answer">>) EXCEPT !.chatCalls = 1]
    ELSE [Reply("chat_with_agent", None, {}, <<"Error: ">> \o Str(Val(out)))
          EXCEPT !.caught = out, !.chatCalls = 1]

\* The message reaches the call agent.chat(message) of chat_with_agent.
ReachesChat(ag, message) == ChatWithAgent(ag, message, None).chatCalls = 1

\* submit_btn.click / msg.submit (fn=chat_with_agent), up to the call of
\* agent.chat: a message that does not get there is answered at once; one
\* that does is in progress while the agent works on it, and Gradio runs the
\* other handlers meanwhile. One call of agent.chat is in progress at a time.
AppChat ==
    /\ proc = "app"
    /\ lifecycle = "serving"
    /\ \E message \in Messages :
        IF ReachesChat(agent, message)
        THEN /\ inflight = None
             /\ inflight' = Some(message)
             /\ resp' = resp
        ELSE /\ resp' = Recorded(ChatWithAgent(agent, message, None))
             /\ inflight' = inflight
    /\ UNCHANGED <<env, proc, lifecycle, agent, initFailed, pipeline,
                initializing, setupCalls, replaced, session, ingest>>

\* chat_with_agent from the return or the exception of agent.chat on.
AppChatReturns ==
    /\ proc = "app"
    /\ lifecycle = "serving"
    /\ inflight # None
    /\ \E out \in AgentChatOutcomes :
        resp' = Recorded(ChatWithAgent(agent, Val(inflight), out))
    /\ inflight' = None
    /\ UNCHANGED <<env, proc, lifecycle, agent, initFailed, pipeline,
                initializing, setupCalls, replaced, session, ingest>>

\* demo.load(get_agent_status, ..., every=5)
AppStatus ==
    /\ proc = "app"
    /\ lifecycle = "serving"
    /\ resp' = Recorded(Reply("get_agent_status", None, {},
                              IF agent = None THEN <<"Agent not initialized">>
                                              ELSE <<"Agent ready">>))
    /\ UNCHANGED <<env, proc, lifecycle, agent, initFailed, pipeline, inflight, initializing,
                setupCalls, replaced, session, ingest>>

AppNext ==
    \/ AppLaunch
    \/ AppInitialize
    \/ AppInitializeImports
    \/ AppInitializeReadsKey
    \/ AppInitializeSetsLlm
    \/ AppInitializeSetsEmbedModel
    \/ AppInitializeFinishes
    \/ AppInitializeEnds
    \/ AppChat
    \/ AppChatReturns
    \/ AppStatus

----------------------------------------------------------------------------
\* The command-line loop (src/main.py).

\* main() up to the loop: initialize_settings, the test for QDRANT_PATH and
\* setup_agent; each failure is logged and main returns.
CliSetup(e) ==
    IF ~e.apiKey THEN Some(KeyMissing)
    ELSE IF ~QdrantExists(e)
    THEN Some(Exc("Error", <<"The Qdrant storage path was not found">>))
    ELSE SetupAgent(e, TRUE).raised

\* The environment main() leaves: what setup_agent did to it, where main
\* got as far as calling it.
CliSetupEnv(e) ==
    IF e.apiKey /\ QdrantExists(e) THEN SetupAgent(e, TRUE).env ELSE e

\* ResearchSession(): an empty history and no notes (the session id and the
\* timestamps of the entries are not modelled).
ResearchSession == [conversation_history |-> <<>>, research_notes |-> <<>>]

\* session.add_interaction(question, answer): sources is left at its default.
AddInteraction(s, question, answer) ==
    [s EXCEPT !.conversation_history =
                  Append(@, [question |-> question, answer |-> answer, sources |-> <<>>])]

\* session.add_research_note(note, category)
AddResearchNote(s, note, category) ==
    [s EXCEPT !.research_notes = Append(@, [category |-> category, note |-> note])]

\* main() up to the loop. ENHANCED_AVAILABLE is whether Enhanced_features
\* could be imported; with it the loop gets a session, without it None.
CliStart ==
    /\ proc = "cli"
    /\ lifecycle = "start"
    /\ LET e == MkStorageDir(env) IN
        /\ env' = CliSetupEnv(e)
        /\ agent' = IF CliSetup(e) = None THEN TheAgent ELSE None
        /\ initFailed' = (CliSetup(e) # None)
        /\ lifecycle' = IF CliSetup(e) = None THEN "loop" ELSE "exited"
        /\ setupCalls' = Counted(setupCalls,
                                 IF e.apiKey /\ QdrantExists(e) THEN 1 ELSE 0)
        /\ \E ENHANCED_AVAILABLE \in BOOLEAN :
            session' = IF CliSetup(e) = None /\ ENHANCED_AVAILABLE
                       THEN Some(ResearchSession) ELSE None
    /\ UNCHANGED <<proc, resp, pipeline, inflight, initializing,
                replaced, ingest>>

\* The handlers of the loop: what is printed or logged for an exception.
CliErrorLog(e) ==
    IF MentionsRateLimit(e)
    THEN [Reply("cli", None, {"warning"},
                <<"Rate limit reached. Please wait a moment before trying again.">>)
          EXCEPT !.caught = Some(e), !.chatCalls = 1]
    ELSE [Reply("cli", None, {"error"}, <<"An error occurred: ">> \o Str(e))
          EXCEPT !.caught = Some(e), !.chatCalls = 1]

\* A regular research query: one call of agent.chat, the answer printed or
\* the exception logged.
CliAnswer(out) ==
    IF out = None
    THEN [Reply("cli", None, {"answer"}, <<"answer">>) EXCEPT !.chatCalls = 1]
    ELSE CliErrorLog(Val(out))

\* What the user types at the prompt "Ask a question: ".
Questions == {<<"what is attention">>}

\* The session has room for one more interaction.
HistoryRoom == session # None => Len(Val(session).conversation_history) < MaxHistory

\* Mutant of CliQuery: the question is tracked before agent.chat is called,
\* so a question whose call raised is in the history too.
CliQueryTracksFirst ==
    /\ proc = "cli"
    /\ lifecycle = "loop"
    /\ HistoryRoom
    /\ \E user_input \in Questions, out \in AgentChatOutcomes :
        LET r == CliAnswer(out) IN
        /\ resp' = Recorded([r EXCEPT !.request = Some(user_input)])
        /\ session' = IF session # None
                       THEN Some(AddInteraction(Val(session), user_input, r.text))
                       ELSE session
    /\ UNCHANGED <<env, proc, lifecycle, agent, initFailed, pipeline, inflight,
                initializing, setupCalls, replaced, ingest>>

\* A question typed at the prompt: answered and tracked in the session, or
\* the exception logged and the loop continued.
CliQuery ==
    /\ proc = "cli"
    /\ lifecycle = "loop"
    /\ HistoryRoom
    /\ \E user_input \in Questions, out \in AgentChatOutcomes :
        LET r == CliAnswer(out) IN
        /\ resp' = Recorded([r EXCEPT !.request = Some(user_input)])
        /\ session' = IF out = None /\ session # None
                       THEN Some(AddInteraction(Val(session), user_input, r.text))
                       ELSE session
    /\ UNCHANGED <<env, proc, lifecycle, agent, initFailed, pipeline, inflight,
                initializing, setupCalls, replaced, ingest>>

\* session.export_to_markdown() writes the file (None) or raises, as when
\* ./exports cannot be made or written.
ExportOutcomes ==
    {None, Some(Exc("FileExistsError", <<"[Errno 17] File exists: 'exports'">>))}

\* Menu option 1: what is printed.
CliExportAnswer(s, out) ==
    IF s.conversation_history = <<>>
    THEN Reply("cli_export", None, {"notice"},
               <<"No conversation history to export yet.">>)
    ELSE IF out = None
    THEN Reply("cli_export", None, {"exported"},
               <<"Conversation exported to: ", "filepath">>)
    ELSE [Reply("cli_export", None, {"error"}, <<"Export failed: ">> \o Str(Val(out)))
          EXCEPT !.caught = out]

\* Menu option 1: the session is exported when it has a history.
CliExport ==
    /\ proc = "cli"
    /\ lifecycle = "loop"
    /\ session # None
    /\ \E out \in ExportOutcomes :
        resp' = Recorded(CliExportAnswer(Val(session), out))
    /\ UNCHANGED <<env, proc, lifecycle, agent, initFailed, pipeline, inflight, initializing,
                setupCalls, replaced, session, ingest>>

\* The topic typed for a research summary; nothing typed gives the default.
Topics == {"", "transformers"}

SummaryTopic(typed) ==
    IF typed = ""
    THEN "all research findings and key concepts from the documents"
    ELSE typed

\* Menu option 2: what is printed for the summary or for the exception.
CliSummaryAnswer(out) ==
    IF out = None
    THEN [Reply("cli_summary", None, {"summary"}, <<"answer">>) EXCEPT !.chatCalls = 1]
    ELSE IF MentionsRateLimit(Val(out))
    THEN [Reply("cli_summary", None, {"warning"},
                <<"Rate limit reached. Please wait a moment before trying again.">>)
          EXCEPT !.caught = out, !.chatCalls = 1]
    ELSE [Reply("cli_summary", None, {"error"},
                <<"Error generating summary: ">> \o Str(Val(out)))
          EXCEPT !.caught = out, !.chatCalls = 1]

\* Menu option 2: one call of agent.chat with the summary query; the answer
\* is tracked under "Research Summary: <topic>".
CliSummary ==
    /\ proc = "cli"
    /\ lifecycle = "loop"
    /\ session # None
    /\ HistoryRoom
    /\ \E typed \in Topics, out \in AgentChatOutcomes :
        LET r == CliSummaryAnswer(out)
            question == <<"Research Summary: ", SummaryTopic(typed)>>
        IN
        /\ resp' = Recorded([r EXCEPT !.request = Some(question)])
        /\ session' = IF out = None
                       THEN Some(AddInteraction(Val(session), question, r.text))
                       ELSE session
    /\ UNCHANGED <<env, proc, lifecycle, agent, initFailed, pipeline, inflight,
                initializing, setupCalls, replaced, ingest>>

\* What the user types as a research note (nothing typed adds nothing) and
\* as its category (nothing typed gives 'general').
Notes == {"", "check the appendix"}
Categories == {"", "methods"}

\* Menu option 3
CliAddNote ==
    /\ proc = "cli"
    /\ lifecycle = "loop"
    /\ session # None
    /\ Len(Val(session).research_notes) < MaxNotes
    /\ \E note \in Notes, typed \in Categories :
        LET category == IF typed = "" THEN "general" ELSE typed IN
        /\ session' = IF note = "" THEN session
                       ELSE Some(AddResearchNote(Val(session), note, category))
        /\ resp' = IF note = "" THEN resp
                    ELSE Recorded(Reply("cli_note", None, {"added"},
                                        <<"Note added to category ", category>>))
    /\ UNCHANGED <<env, proc, lifecycle, agent, initFailed, pipeline, inflight,
                initializing, setupCalls, replaced, ingest>>

\* The session holds something to export.
HasContent(s) == s.conversation_history # <<>> \/ s.research_notes # <<>>

\* What the loop prints when it ends: a session with content is exported
\* and the file named; an exception of the export is swallowed.
CliGoodbye(route, ses, out) ==
    IF ses # None /\ HasContent(Val(ses)) /\ out = None
    THEN Reply(route, None, {"exported"},
               <<"Session auto-exported to: ", "filepath", "Goodbye!">>)
    ELSE Reply(route, None, {}, <<"Goodbye!">>)

\* 'quit', 'exit' or 'q'
CliQuit ==
    /\ proc = "cli"
    /\ lifecycle = "loop"
    /\ lifecycle' = "exited"
    /\ \E out \in ExportOutcomes :
        resp' = Recorded(CliGoodbye("cli_quit", session, out))
    /\ UNCHANGED <<env, proc, agent, initFailed, pipeline, inflight, initializing,
                setupCalls, replaced, session, ingest>>

\* Ctrl-C, at the prompt or in a call of agent.chat: the session is added to
\* only after a call has returned, so the handler of KeyboardInterrupt
\* finds it as the last command left it.
CliInterrupt ==
    /\ proc = "cli"
    /\ lifecycle = "loop"
    /\ lifecycle' = "exited"
    /\ \E out \in ExportOutcomes, in_chat \in BOOLEAN :
        resp' = Recorded([CliGoodbye("cli_interrupt", session, out)
                          EXCEPT !.chatCalls = IF in_chat THEN 1 ELSE 0])
    /\ UNCHANGED <<env, proc, agent, initFailed, pipeline, inflight, initializing,
                setupCalls, replaced, session, ingest>>

CliNext ==
    \/ CliStart
    \/ CliQuery
    \/ CliExport
    \/ CliSummary
    \/ CliAddNote
    \/ CliQuit
    \/ CliInterrupt

----------------------------------------------------------------------------
\* The research loop of Enhanced_features.py, run as a script.

\* setup_enhanced_agent(): the key, setup_query_engine, a session, three
\* tools and the agent. agent.setup_agent and the test for QDRANT_PATH are
\* not part of it.
SetupEnhancedAgent(e) ==
    IF ~e.apiKey
    THEN [raised |-> Some(KeyMissing), built |-> <<>>, env |-> e]
    ELSE LET q == SetupQueryEngine(e) IN
         IF q.raised # None THEN q
         ELSE [raised |-> None,
               built |-> q.built \o <<"session", "query_engine_tool",
                                      "summarization_tool", "research_note_tool",
                                      "agent">>,
               env |-> q.env]

\* interactive_research_session() up to the loop: a failure of the set-up is
\* logged and the function returns.
ResearchStart ==
    /\ proc = "research"
    /\ lifecycle = "start"
    /\ LET r == SetupEnhancedAgent(MkStorageDir(env)) IN
        /\ env' = r.env
        /\ agent' = IF r.raised = None THEN TheAgent ELSE None
        /\ session' = IF r.raised = None THEN Some(ResearchSession) ELSE None
        /\ initFailed' = (r.raised # None)
        /\ lifecycle' = IF r.raised = None THEN "loop" ELSE "exited"
        /\ resp' = IF r.raised = None THEN resp
                    ELSE Recorded([Reply("research", None, {"error"},
                                         <<"Failed to set up the enhanced agent: ">>
                                             \o Str(Val(r.raised)))
                                   EXCEPT !.caught = r.raised])
    /\ UNCHANGED <<proc, pipeline, inflight, initializing, setupCalls,
                replaced, ingest>>

\* The except clause of the loop: what is logged for an exception.
ResearchErrorLog(e) ==
    IF MentionsRateLimit(e)
    THEN [Reply("research", None, {"warning"},
                <<"Rate limit reached. Please wait a moment before trying again.">>)
          EXCEPT !.caught = Some(e)]
    ELSE [Reply("research", None, {"error"}, <<"An error occurred: ">> \o Str(e))
          EXCEPT !.caught = Some(e)]

\* A call of agent.chat in the loop: the answer, or the exception logged.
ResearchAnswer(out) ==
    IF out = None
    THEN [Reply("research", None, {"answer"}, <<"answer">>) EXCEPT !.chatCalls = 1]
    ELSE [ResearchErrorLog(Val(out)) EXCEPT !.chatCalls = 1]

\* What a call of agent.chat leaves of the session: the agent has the tool
\* add_research_note in every call, and whether it calls it, and with which
\* category, is the agent's doing; a note the tool has added stays when
\* agent.chat raises afterwards.
Noted(s, called, category) ==
    IF called THEN AddResearchNote(s, "check the appendix", category) ELSE s

\* A question typed at the prompt "Research query: ".
ResearchQuery ==
    /\ proc = "research"
    /\ lifecycle = "loop"
    /\ HistoryRoom
    /\ \E user_input \in Questions, out \in AgentChatOutcomes, called \in BOOLEAN,
          category \in {"general", "methods"} :
        LET r == ResearchAnswer(out)
            s == Noted(Val(session), called, category)
        IN
        /\ called => Len(Val(session).research_notes) < MaxNotes
        /\ resp' = Recorded([r EXCEPT !.request = Some(user_input)])
        /\ session' = IF out = None
                       THEN Some(AddInteraction(s, user_input, r.text))
                       ELSE Some(s)
    /\ UNCHANGED <<env, proc, lifecycle, agent, initFailed, pipeline, inflight,
                initializing, setupCalls, replaced, ingest>>

\* 'summarize <topic>': the agent is asked for a summary and its answer is
\* tracked under "Summarize: <topic>"; the branch has no `continue`, so the
\* line typed then runs as a regular query too: a second call of agent.chat
\* and, when it returns, a second interaction.
ResearchSummarize ==
    /\ proc = "research"
    /\ lifecycle = "loop"
    /\ Len(Val(session).conversation_history) + 2 <= MaxHistory
    /\ \E first \in AgentChatOutcomes, second \in AgentChatOutcomes,
          called \in BOOLEAN, category \in {"general", "methods"} :
        LET user_input == <<"summarize ", "transformers">>
            s == Noted(Val(session), called, category)
            tracked == AddInteraction(s, <<"Summarize: ", "transformers">>,
                                      <<"answer">>)
            r == ResearchAnswer(second)
        IN
        /\ called => Len(Val(session).research_notes) < MaxNotes
        /\ IF first # None
           THEN /\ resp' = Recorded([ResearchAnswer(first)
                                     EXCEPT !.request = Some(user_input)])
                /\ session' = Some(s)
           ELSE /\ resp' = Recorded([r EXCEPT !.request = Some(user_input),
                                              !.chatCalls = 2])
                /\ session' = IF second = None
                               THEN Some(AddInteraction(tracked, user_input, r.text))
                               ELSE Some(tracked)
    /\ UNCHANGED <<env, proc, lifecycle, agent, initFailed, pipeline, inflight,
                initializing, setupCalls, replaced, ingest>>

\* 'note <category>: <content>' or 'note <content>': with a colon the
\* category is what stands before it, nothing included; without one it is
\* 'general'. The agent is asked to call its tool add_research_note with
\* them.
ResearchNote ==
    /\ proc = "research"
    /\ lifecycle = "loop"
    /\ Len(Val(session).research_notes) < MaxNotes
    /\ \E colon \in BOOLEAN, typed \in Categories, out \in AgentChatOutcomes,
          called \in BOOLEAN :
        LET category == IF colon THEN typed ELSE "general" IN
        /\ resp' = Recorded(ResearchAnswer(out))
        /\ session' = Some(Noted(Val(session), called, category))
    /\ UNCHANGED <<env, proc, lifecycle, agent, initFailed, pipeline, inflight,
                initializing, setupCalls, replaced, ingest>>

\* 'export': an exception of the export is logged by the except clause of
\* the loop.
ResearchExport ==
    /\ proc = "research"
    /\ lifecycle = "loop"
    /\ \E out \in ExportOutcomes :
        resp' = Recorded(IF out = None
                         THEN Reply("research", None, {"exported"},
                                    <<"Research session exported to: ", "filepath">>)
                         ELSE ResearchErrorLog(Val(out)))
    /\ UNCHANGED <<env, proc, lifecycle, agent, initFailed, pipeline, inflight,
                initializing, setupCalls, replaced, session, ingest>>

\* What the loop prints when it ends: the file of the export, where the
\* session had content, and "Goodbye!".
ResearchGoodbye(s) ==
    IF HasContent(s)
    THEN Reply("research", None, {"exported"},
               <<"Session exported to: ", "filepath", "Goodbye!">>)
    ELSE Reply("research", None, {}, <<"Goodbye!">>)

\* 'quit', 'exit' or 'q': a session with content is exported first, outside
\* any try of its own: when the export raises, the except clause of the loop
\* logs it and the loop goes on.
ResearchQuit ==
    /\ proc = "research"
    /\ lifecycle = "loop"
    /\ \E out \in ExportOutcomes :
        IF HasContent(Val(session)) /\ out # None
        THEN /\ resp' = Recorded(ResearchErrorLog(Val(out)))
             /\ lifecycle' = lifecycle
        ELSE /\ resp' = Recorded(ResearchGoodbye(Val(session)))
             /\ lifecycle' = "exited"
    /\ UNCHANGED <<env, proc, agent, initFailed, pipeline, inflight,
                initializing, setupCalls, replaced, session, ingest>>

\* Ctrl-C: KeyboardInterrupt is no Exception, so it passes the except clause
\* of the loop's errors and reaches its own handler, with what the
\* interrupted command has done by then: nothing, at the prompt; one call of
\* agent.chat, in a question, in 'note ...' or in the first call of
\* 'summarize <topic>'; two calls and the tracked answer of the first, in the
\* second call of 'summarize <topic>'; in a call, the note of the tool where
\* the agent has called it. The export runs inside the handler; when it
\* raises, the exception leaves the loop and is logged as a failed set-up.
\* The function returns either way.
ResearchInterrupt ==
    /\ proc = "research"
    /\ lifecycle = "loop"
    /\ lifecycle' = "exited"
    /\ \E at \in {"prompt", "chat", "summarize"}, called \in BOOLEAN,
          category \in Categories \cup {"general"}, out \in ExportOutcomes :
        LET noted == Noted(Val(session), called, category)
            s == IF at = "summarize"
                 THEN AddInteraction(noted, <<"Summarize: ", "transformers">>,
                                     <<"answer">>)
                 ELSE noted
            calls == IF at = "prompt" THEN 0 ELSE IF at = "chat" THEN 1 ELSE 2
        IN
        /\ at = "prompt" => ~called
        /\ called => Len(Val(session).research_notes) < MaxNotes
        /\ at = "summarize" => Len(Val(session).conversation_history) < MaxHistory
        /\ session' = Some(s)
        /\ resp' = Recorded([(IF HasContent(s) /\ out # None
                              THEN [Reply("research", None, {"error"},
                                          <<"Failed to set up the enhanced agent: ">>
                                              \o Str(Val(out)))
                                    EXCEPT !.caught = out]
                              ELSE ResearchGoodbye(s))
                             EXCEPT !.chatCalls = calls])
    /\ UNCHANGED <<env, proc, agent, initFailed, pipeline, inflight,
                initializing, setupCalls, replaced, ingest>>

ResearchNext ==
    \/ ResearchStart
    \/ ResearchQuery
    \/ ResearchSummarize
    \/ ResearchNote
    \/ ResearchExport
    \/ ResearchQuit
    \/ ResearchInterrupt

----------------------------------------------------------------------------
\* The environment: an operator deletes ./storage as the messages of
\* verify_storage tell them to, or runs `python ingestion.py` (below).

DeleteStorage ==
    /\ env.storage # "no_dir"
    /\ env' = [env EXCEPT !.storage = "no_dir", !.index_store = FALSE,
                          !.qdrant = FALSE]
    /\ UNCHANGED <<proc, lifecycle, agent, resp, initFailed, pipeline, inflight, initializing,
                setupCalls, replaced, session, ingest>>

----------------------------------------------------------------------------
\* A run of `python ingestion.py` (src/ingestion.py), step by step.

\* The papers that can lie in ./data as <name>.pdf and, parsed by an earlier
\* run of Nougat, in ./output_parsed_markdown as <name>.mmd.
Papers == {"a", "b"}

\* What running the nougat command does on this machine: it parses the PDFs,
\* exits non-zero (CalledProcessError), is not installed (FileNotFoundError),
\* or is a file that may not be executed (PermissionError).
NougatBehaviours == {"works", "fails", "missing", "denied"}

\* What the calls into qdrant_client and llama_index leave on disk is not
\* code of this repository: QdrantClient(path=...) makes the local store
\* under ./storage/qdrant_db or keeps nothing on disk, and persist() writes
\* docstore.json and the index files or writes nothing.
LibraryDisk == [client : BOOLEAN, persist : BOOLEAN]

\* What the files yield: text; documents without a sentence (no nodes); or no
\* document at all.
Contents == {"text", "blank", "unreadable"}

\* The state of a run before its first line: the files it finds, how
\* Nougat behaves and which markdown files a run of it that exits non-zero
\* has written by then (left), how the readers behave, and what the
\* libraries put on disk.
IngestRun(pdfs, mmds, nougat, left, content, disk) ==
    [pdfs |-> pdfs, mmds |-> mmds, nougat |-> nougat, left |-> left,
     content |-> content, disk |-> disk,
     step |-> "start", parsed |-> None, run |-> "not_run",
     loaded_from |-> None, documents |-> {},
     collection |-> "as_persisted", docstore_file |-> "as_persisted",
     verified |-> <<>>,
     raised |-> None, exit |-> None, storage_before |-> None]

\* The run started next to a serving process: one PDF with text, on a
\* machine without Nougat and with no markdown left, with the libraries
\* writing to disk.
ShellRuns ==
    {IngestRun({"a"}, {}, "missing", {}, "text", [client |-> TRUE, persist |-> TRUE])}

\* An operator starts `python ingestion.py` in a shell, next to whatever
\* else is running, when no run is under way.
RunIngestion ==
    /\ IF ingest = None THEN TRUE ELSE ingest.step = "exited"
    /\ \E run \in ShellRuns : ingest' = run
    /\ UNCHANGED <<env, proc, lifecycle, agent, resp, initFailed, pipeline, inflight,
                initializing, setupCalls, replaced, session>>

\* setup_paths(), after `import config` made the same directories.
SetupPaths ==
    /\ ingest # None
    /\ ingest.step = "start"
    /\ env' = MkStorageDir(env)
    /\ ingest' = [ingest EXCEPT !.step = "paths",
                                !.storage_before = Some(env')]
    /\ UNCHANGED <<proc, lifecycle, agent, resp, initFailed, pipeline, inflight,
                initializing, setupCalls, replaced, session>>

PermissionDenied == Exc("PermissionError", <<"[Errno 13] Permission denied: 'nougat'">>)

\* parse_documents_with_nougat(): what it returns or the exception that
\* leaves it, whether the nougat command ran and how it ended, and the
\* markdown files there are afterwards. What a run that exits non-zero has
\* written stays; only CalledProcessError and FileNotFoundError are caught.
ParseDocumentsWithNougat(g) ==
    IF g.pdfs = {}
    THEN [returns |-> Some(FALSE), raised |-> None, run |-> "not_run", mmds |-> g.mmds]
    ELSE IF g.pdfs \subseteq g.mmds /\ g.mmds # {}
    THEN [returns |-> Some(TRUE), raised |-> None, run |-> "not_run", mmds |-> g.mmds]
    ELSE IF g.nougat = "works"
    THEN [returns |-> Some(TRUE), raised |-> None, run |-> "completed",
          mmds |-> g.mmds \cup g.pdfs]
    ELSE IF g.nougat = "fails"
    THEN [returns |-> Some(TRUE), raised |-> None, run |-> "failed",
          mmds |-> g.mmds \cup g.left]
    ELSE IF g.nougat = "missing"
    THEN [returns |-> Some(TRUE), raised |-> None, run |-> "failed", mmds |-> g.mmds]
    ELSE [returns |-> None, raised |-> Some(PermissionDenied), run |-> "denied",
          mmds |-> g.mmds]

\* The call in the __main__ block, outside its try: the return value is not
\* looked at, and an exception that leaves the function ends the process
\* with a traceback before build_and_persist_index is called.
ParseDocuments ==
    /\ ingest # None
    /\ ingest.step = "paths"
    /\ LET r == ParseDocumentsWithNougat(ingest) IN
        ingest' = [ingest EXCEPT !.step = IF r.raised # None THEN "exited" ELSE "parsed",
                                 !.parsed = r.returns,
                                 !.run = r.run, !.mmds = r.mmds,
                                 !.raised = r.raised,
                                 !.exit = IF r.raised # None THEN Some(1) ELSE None]
    /\ UNCHANGED <<env, proc, lifecycle, agent, resp, initFailed, pipeline, inflight,
                initializing, setupCalls, replaced, session>>

\* The directory build_and_persist_index reads and the files in it: the
\* markdown directory whenever it holds a .mmd file, else the PDF directory.
LoadDirectory(g) ==
    IF g.mmds # {}
    THEN [from |-> "markdown", files |-> g.mmds]
    ELSE [from |-> "pdf", files |-> g.pdfs]

NoFiles == Exc("ValueError", <<"No files found in ", "directory">>)
NoDocuments == Exc("ValueError", <<"No documents could be loaded. Check your PDF files.">>)
NoNodes ==
    Exc("ValueError", <<"No nodes were created from documents. Documents might be empty.">>)

\* The errors of build_and_persist_index that come from its inputs.
InputErrors == {KeyMissing, NoFiles, NoDocuments, NoNodes}

\* build_and_persist_index() up to the docstore it fills in memory: the
\* exception it raises, the directory it read and the documents it loaded.
LoadAndParse(e, g) ==
    IF ~e.apiKey
    THEN [raised |-> Some(KeyMissing), from |-> None, documents |-> {}]
    ELSE LET d == LoadDirectory(g) IN
         IF d.files = {}
         THEN [raised |-> Some(NoFiles), from |-> Some(d.from), documents |-> {}]
         ELSE IF g.content = "unreadable"
         THEN [raised |-> Some(NoDocuments), from |-> Some(d.from), documents |-> {}]
         ELSE IF g.content = "blank"
         THEN [raised |-> Some(NoNodes), from |-> Some(d.from), documents |-> d.files]
         ELSE [raised |-> None, from |-> Some(d.from), documents |-> d.files]

\* Mutant of BuildLoad: the collection is deleted and recreated first, the
\* documents are loaded after.
BuildLoadRecreatesFirst ==
    /\ ingest # None
    /\ ingest.step = "parsed"
    /\ LET r == LoadAndParse(env, ingest) IN
        ingest' = [ingest EXCEPT !.step = IF r.raised # None THEN "exited" ELSE "loaded",
                                 !.loaded_from = r.from,
                                 !.documents = r.documents,
                                 !.collection = "recreated",
                                 !.raised = r.raised,
                                 !.exit = IF r.raised # None THEN Some(1) ELSE None]
    /\ UNCHANGED <<env, proc, lifecycle, agent, resp, initFailed, pipeline, inflight,
                initializing, setupCalls, replaced, session>>

\* build_and_persist_index(), first part: the key, the models, the documents,
\* the nodes and the docstore in memory. An exception is logged by the
\* __main__ block and the process exits with status 1.
BuildLoad ==
    /\ ingest # None
    /\ ingest.step = "parsed"
    /\ LET r == LoadAndParse(env, ingest) IN
        ingest' = [ingest EXCEPT !.step = IF r.raised # None THEN "exited" ELSE "loaded",
                                 !.loaded_from = r.from,
                                 !.documents = r.documents,
                                 !.raised = r.raised,
                                 !.exit = IF r.raised # None THEN Some(1) ELSE None]
    /\ UNCHANGED <<env, proc, lifecycle, agent, resp, initFailed, pipeline, inflight,
                initializing, setupCalls, replaced, session>>

\* QdrantClient(path=...), delete_collection and recreate_collection: the
\* persisted collection is gone, an empty one of size 384 is in its place.
RecreateCollection ==
    /\ ingest # None
    /\ ingest.step = "loaded"
    /\ ingest' = [ingest EXCEPT !.step = "recreated", !.collection = "recreated"]
    /\ env' = IF ingest.disk.client THEN OpensQdrant(env) ELSE env
    /\ UNCHANGED <<proc, lifecycle, agent, resp, initFailed, pipeline, inflight,
                initializing, setupCalls, replaced, session>>

\* index.storage_context.persist(persist_dir=STORAGE_DIR): docstore.json and
\* index_store.json are written, the directory made where it is gone.
Persisted(e) == [e EXCEPT !.storage = "populated", !.index_store = TRUE]

\* verify_persistence(): the errors it logs, in order; it reads
\* docstore.json with json.load, which raises on a file that is no JSON.
VerifyPersistence(e) ==
    IF e.storage = "malformed"
    THEN [raised |-> Some(Exc("JSONDecodeError", <<"Expecting value">>)), logged |-> <<>>]
    ELSE [raised |-> None,
          logged |->
              (IF ~DocstoreExists(e.storage) THEN <<"Docstore file not found!">>
               ELSE IF e.storage = "no_data_key"
               THEN <<"WARNING: Docstore has wrong structure!">>
               ELSE IF e.storage = "no_entries" THEN <<"WARNING: Docstore is empty!">>
               ELSE <<>>)
              \o (IF IndexStoreExists(e) THEN <<>>
                  ELSE <<"Index store not found!">>)
              \o (IF QdrantExists(e) THEN <<>> ELSE <<"Qdrant database not found!">>)]

\* The index is built from the nodes, the storage context is persisted and
\* verify_persistence looks at what is on disk; it only logs, so the run
\* ends with status 0 unless reading docstore.json raises.
BuildAndPersist ==
    /\ ingest # None
    /\ ingest.step = "recreated"
    /\ env' = IF ingest.disk.persist THEN Persisted(env) ELSE env
    /\ LET v == VerifyPersistence(env') IN
        ingest' = [ingest EXCEPT !.step = "exited", !.collection = "rebuilt",
                                 !.docstore_file = IF ingest.disk.persist
                                                   THEN "rewritten" ELSE @,
                                 !.verified = v.logged,
                                 !.raised = v.raised,
                                 !.exit = IF v.raised = None THEN Some(0) ELSE Some(1)]
    /\ UNCHANGED <<proc, lifecycle, agent, resp, initFailed, pipeline, inflight,
                initializing, setupCalls, replaced, session>>

\* The embedding of the nodes or the write into Qdrant fails.
BuildFailed == Exc("RuntimeError", <<"Connection", "reset">>)

BuildRaises ==
    /\ ingest # None
    /\ ingest.step = "recreated"
    /\ ingest' = [ingest EXCEPT !.step = "exited", !.raised = Some(BuildFailed),
                                !.exit = Some(1)]
    /\ UNCHANGED <<env, proc, lifecycle, agent, resp, initFailed, pipeline, inflight,
                initializing, setupCalls, replaced, session>>

IngestionNext ==
    \/ SetupPaths
    \/ ParseDocuments
    \/ BuildLoad
    \/ RecreateCollection
    \/ BuildAndPersist
    \/ BuildRaises

\* No query runs in the pipeline variables of a serving surface.
PipelineOff ==
    /\ docstore = [n \in NodeIds |-> "text of " \o n]
    /\ vecAnswer = <<>>
    /\ bm25Answer = <<>>
    /\ top_n = 0
    /\ pc = "off"
    /\ vector_nodes = <<>>
    /\ bm25_nodes = <<>>
    /\ node_dict = <<>>
    /\ i = 1
    /\ all_nodes = <<>>
    /\ returned = None
    /\ prev = None
    /\ reranked = <<>>
    /\ response = None
    /\ error = "none"
    /\ node_metadata = {}
    /\ invoked = <<>>

\* A process before it has run a line.
SurfaceStart ==
    /\ env \in Env
    /\ proc \in Procs
    /\ lifecycle = "start"
    /\ agent = None
    /\ resp = None
    /\ initFailed = FALSE
    /\ Quiet

SurfaceInit == PipelineOff /\ SurfaceStart

SurfaceNext ==
    \/ ServerNext
    \/ AppNext
    \/ CliNext
    \/ ResearchNext
    \/ RunIngestion
    \/ IngestionNext
    \/ DeleteStorage

SpecSurface == SurfaceInit /\ [][SurfaceNext]_vars

\* `python ingestion.py` started in a shell, in any environment and on any
\* files.
IngestionInit ==
    /\ PipelineOff
    /\ env \in Env
    /\ proc = "ingestion"
    /\ lifecycle = "start"
    /\ agent = None
    /\ resp = None
    /\ initFailed = FALSE
    /\ Idle
    /\ \E pdfs \in SUBSET Papers, mmds \in SUBSET Papers,
          nougat \in NougatBehaviours, content \in Contents, disk \in LibraryDisk :
        \E left \in (IF nougat = "fails" THEN SUBSET pdfs ELSE {{}}) :
            ingest = IngestRun(pdfs, mmds, nougat, left, content, disk)

SpecIngestion == IngestionInit /\ [][IngestionNext]_vars

\* A server about to start, next to a query engine that setup_query_engine
\* has built (retrieval.py run as a script): the storage it verified, the
\* index store it loaded and the Qdrant store it opened are on disk. The two
\* run side by side.
ServerAndEngineInit ==
    /\ PipelineInit
    /\ Len(vecAnswer) <= 1
    /\ Len(bm25Answer) <= 1
    /\ top_n = MaxTopN
    /\ SurfaceStart
    /\ proc = "server"
    /\ env.apiKey
    /\ env.storage = "populated"
    /\ IndexStoreExists(env)
    /\ QdrantExists(env)

ServerAndEngineNext == Next \/ ServerNext

SpecServerAndEngine == ServerAndEngineInit /\ [][ServerAndEngineNext]_vars

----------------------------------------------------------------------------
\* Vocabulary of the properties.

IdsOf(seq) == [k \in 1..Len(seq) |-> seq[k].id]

IdSet(seq) == {seq[k].id : k \in 1..Len(seq)}

Occurrences(seq, n) == {k \in 1..Len(seq) : seq[k].id = n}

ScoreOf(seq, n) == seq[CHOOSE k \in 1..Len(seq) : seq[k].id = n].score

Distinct(seq) == \A a, b \in 1..Len(seq) : seq[a] = seq[b] => a = b

\* Insertion order into the candidate set: the vector results, then the BM25 results.
Handed == vecAnswer \o bm25Answer

FirstPos(n) == CHOOSE k \in Occurrences(Handed, n) : \A m \in Occurrences(Handed, n) : k <= m

Min(a, b) == IF a <= b THEN a ELSE b

\* Every mean the fusion computes is exact in the fixed-point scores.
MeansExact ==
    \A r \in {VRef(i), BRef(i)} :
        (/\ pc = (IF r.src = "vector" THEN "vector_loop" ELSE "bm25_loop")
         /\ Deref(r).id \in Keys(node_dict)
         /\ ~ Raises(r))
        => (Val(Deref(Lookup(node_dict, Deref(r).id)).score) + Val(Deref(r).score)) % 2 = 0

----------------------------------------------------------------------------
\* C1: the candidate mapping holds at most one entry per node identifier after
\* every insertion step, each entry filed under the identifier of its own node,
\* and the list _retrieve returns holds every node identifier at most once.
C1_Dedup ==
    /\ Distinct([k \in 1..Len(node_dict) |-> node_dict[k].key])
    /\ pc \in {"vector_loop", "bm25_loop", "sort"} =>
           \A k \in 1..Len(node_dict) : Deref(node_dict[k].ref).id = node_dict[k].key
    /\ returned # None => Distinct(IdsOf(Val(returned)))

\* A call whose two input lists repeat identifiers, within a list and across them.
C1_Witness ==
    /\ pc = "retrieved"
    /\ Len(Val(returned)) = 2
    /\ Len(vecAnswer) = 2 /\ Len(bm25Answer) = 2
    /\ vecAnswer[1].id = vecAnswer[2].id

\* C2: a node returned once by each sub-retriever, with scores a and b, has the
\* score (a+b)/2 in the output; a node returned by one sub-retriever only keeps
\* that sub-retriever's score.
C2_FusedScore ==
    returned # None =>
        \A n \in NodeIds :
            LET v == Occurrences(vecAnswer, n)
                b == Occurrences(bm25Answer, n)
                out == Val(returned)
            IN  /\ (Cardinality(v) = 1 /\ Cardinality(b) = 1) =>
                       /\ n \in IdSet(out)
                       /\ ScoreOf(vecAnswer, n) # None
                       /\ ScoreOf(bm25Answer, n) # None
                       /\ ScoreOf(out, n) # None
                       /\ 2 * Val(ScoreOf(out, n)) =
                              Val(ScoreOf(vecAnswer, n)) + Val(ScoreOf(bm25Answer, n))
                /\ (Cardinality(v) = 1 /\ Cardinality(b) = 0) =>
                       (n \in IdSet(out) /\ ScoreOf(out, n) = ScoreOf(vecAnswer, n))
                /\ (Cardinality(v) = 0 /\ Cardinality(b) = 1) =>
                       (n \in IdSet(out) /\ ScoreOf(out, n) = ScoreOf(bm25Answer, n))

\* One node from the vector retriever only, one from both with different scores:
\* D = 2 alone stays 2, E = 1 and 2 becomes 1.5.
C2_Witness ==
    /\ pc = "retrieved"
    /\ vecAnswer = <<[id |-> "A", score |-> Some(2 * Unit)], [id |-> "B", score |-> Some(Unit)]>>
    /\ bm25Answer = <<[id |-> "B", score |-> Some(2 * Unit)]>>
    /\ Val(returned) = <<[id |-> "A", score |-> Some(2 * Unit)],
                         [id |-> "B", score |-> Some(Unit + Unit \div 2)]>>

\* C3: the returned list is in descending order of fused score, and nodes of
\* equal fused score are in insertion order: vector results in the vector
\* retriever's order, then the BM25-only results in the BM25 retriever's order.
C3_Ordered ==
    returned # None =>
        \A a, b \in 1..Len(Val(returned)) :
            LET x == Val(returned)[a]
                y == Val(returned)[b]
            IN  a < b =>
                /\ (x.score # None /\ y.score # None) => Val(x.score) >= Val(y.score)
                /\ x.score = y.score => FirstPos(x.id) < FirstPos(y.id)

\* A tie between a BM25-only node and a vector node that BM25 lists first.
C3_Witness ==
    /\ pc = "retrieved"
    /\ vecAnswer = <<[id |-> "B", score |-> Some(Unit)]>>
    /\ bm25Answer = <<[id |-> "A", score |-> Some(Unit)], [id |-> "B", score |-> Some(Unit)]>>
    /\ IdsOf(Val(returned)) = <<"B", "A">>

\* C4: _retrieve never truncates: the identifiers of its output are the union
\* of the identifiers of the two input lists, one entry each, whatever
\* RERANKER_TOP_N is.
C4_NoTruncation ==
    returned # None =>
        /\ IdSet(Val(returned)) = IdSet(vecAnswer) \cup IdSet(bm25Answer)
        /\ Len(Val(returned)) = Cardinality(IdSet(vecAnswer) \cup IdSet(bm25Answer))

\* More fused candidates than RERANKER_TOP_N.
C4_Witness ==
    /\ pc = "retrieved"
    /\ Len(Val(returned)) > top_n
    /\ top_n >= 1

\* C5: when a sub-retriever fails, the call fails as a whole: _retrieve returns
\* no list, not even the results of the sub-retriever that succeeded, and the
\* query engine ends the query with the failure and no response.
C5_FailsAsWhole ==
    error \in {"vector retriever", "bm25 retriever"} =>
        /\ pc = "raised"
        /\ returned = None
        /\ all_nodes = <<>>
        /\ node_dict = <<>>
        /\ reranked = <<>>
        /\ response = None

\* The vector retriever had returned results when the BM25 retriever failed.
C5_Witness ==
    /\ error = "bm25 retriever"
    /\ pc = "raised"
    /\ vector_nodes = vecAnswer
    /\ Len(vecAnswer) >= 1

\* C6: when both sub-retrievers return empty lists, _retrieve runs no loop
\* body, raises nothing and returns the empty list.
C6_EmptyInEmptyOut ==
    (vecAnswer = <<>> /\ bm25Answer = <<>>) =>
        /\ error \in {"none", "vector retriever", "bm25 retriever"}
        /\ pc \notin {"vector_loop", "bm25_loop"}
        /\ node_dict = <<>>
        /\ returned # None => returned = Some(<<>>)

\* Both sub-retrievers returned empty lists and _retrieve returned.
C6_Witness ==
    /\ pc = "retrieved"
    /\ vector_nodes = <<>> /\ bm25_nodes = <<>>
    /\ vecAnswer = <<>> /\ bm25Answer = <<>>
    /\ returned = Some(<<>>)

\* C7: when the fusion yields no candidate the query still completes: the
\* re-ranker returns an empty list, the synthesis gets an empty context, no
\* stage fails and the response is the synthesizer's "Empty Response".
C7_EmptyCandidatesAnswered ==
    returned = Some(<<>>) =>
        /\ pc \in {"retrieved", "reranked", "answered"}
        /\ error = "none"
        /\ reranked = <<>>
        /\ pc = "answered" => response = Some("Empty Response")
        /\ pc # "answered" => response = None

\* A query with no candidate, answered.
C7_Witness ==
    /\ returned = Some(<<>>)
    /\ pc = "answered"
    /\ response = Some("Empty Response")

\* C8: with the index and the query fixed, every call of _retrieve that returns
\* gives the node identifiers of the previous one, in the same order.
C8_Deterministic ==
    (returned # None /\ prev # None) => IdsOf(Val(returned)) = IdsOf(Val(prev))

\* A second call returned after a first one that fused a node of both lists
\* and was re-ranked.
C8_Witness ==
    /\ pc = "retrieved"
    /\ prev # None
    /\ Len(Val(returned)) = 2
    /\ \E k \in 1..Len(vector_nodes) : vector_nodes[k].score # vecAnswer[k].score

\* Where the ScoredNodes handed over by the sub-retrievers can be looked at
\* after _retrieve has returned or raised.
VectorHanded ==
    \/ pc = "retrieved"
    \/ pc = "raised" /\ error \in {"TypeError", "bm25 retriever"}

BM25Handed ==
    \/ pc = "retrieved"
    \/ pc = "raised" /\ error = "TypeError"

\* Position p of the handed-over results holds the first occurrence of a node
\* identifier that occurs again later.
MergedInto(p) ==
    /\ p = FirstPos(Handed[p].id)
    /\ \E q \in (p + 1)..Len(Handed) : Handed[q].id = Handed[p].id

\* C9 as claimed: after _retrieve returns or raises, the document store, the
\* indexes and the ScoredNodes handed over by the sub-retrievers (node and
\* score) are as before the call (stated for sub-retrievers that return no
\* node twice).
C9_NothingMutated ==
    [][/\ index' = index
       /\ (Distinct(IdsOf(vecAnswer)) /\ Distinct(IdsOf(bm25Answer))) =>
              /\ VectorHanded' => vector_nodes' = vecAnswer
              /\ BM25Handed' => bm25_nodes' = bm25Answer]_vars

\* C9 amended: the document store, the indexes and the configuration are never
\* changed; a handed-over ScoredNode keeps its node, and its score is
\* overwritten only where the fusion merged a later occurrence of the same
\* node identifier into it.
C9_Frame ==
    [][/\ index' = index
       /\ VectorHanded' =>
              /\ Len(vector_nodes') = Len(vecAnswer)
              /\ \A k \in 1..Len(vecAnswer) :
                     /\ vector_nodes'[k].id = vecAnswer[k].id
                     /\ vector_nodes'[k].score # vecAnswer[k].score => MergedInto(k)
       /\ BM25Handed' =>
              /\ Len(bm25_nodes') = Len(bm25Answer)
              /\ \A k \in 1..Len(bm25Answer) :
                     /\ bm25_nodes'[k].id = bm25Answer[k].id
                     /\ bm25_nodes'[k].score # bm25Answer[k].score
                            => MergedInto(Len(vecAnswer) + k)
       /\ (Distinct(IdsOf(vecAnswer)) /\ Distinct(IdsOf(bm25Answer)) /\ BM25Handed')
              => bm25_nodes' = bm25Answer]_vars

\* _retrieve returned after overwriting the score of a vector result that the
\* BM25 retriever returned too; neither retriever returned a node twice.
C9_Witness ==
    /\ pc = "retrieved"
    /\ Distinct(IdsOf(vecAnswer)) /\ Distinct(IdsOf(bm25Answer))
    /\ Len(vecAnswer) = 2
    /\ vector_nodes[1].score # vecAnswer[1].score
    /\ vector_nodes[2] = vecAnswer[2]
    /\ bm25_nodes = bm25Answer

\* C10: the re-ranking stage outputs exactly min(N, len(candidates)) of the
\* candidates, each once, and the stage itself never fails.
C10_RerankBound ==
    /\ (pc \in {"reranked", "answered"} \/ (pc = "raised" /\ returned # None)) =>
           /\ Len(reranked) = Min(top_n, Len(all_nodes))
           /\ Range(reranked) \subseteq Range(all_nodes)
           /\ Distinct(reranked)
    /\ (pc = "raised" /\ returned # None) =>
           (error \in {"rate limit", "llm"} /\ reranked # <<>>)

\* Fewer candidates than N.
C10_Witness ==
    /\ pc = "reranked"
    /\ Len(all_nodes) = 1
    /\ top_n = 2
    /\ Len(reranked) = 1

----------------------------------------------------------------------------
\* The re-ranking stage.

AfterRerank == pc \in {"reranked", "answered"}

\* The score _retrieve returned for the node a reference of all_nodes holds.
FusionScore(r) ==
    Val(returned)[CHOOSE k \in 1..Len(all_nodes) : all_nodes[k] = r].score

\* C11, as the specification states it: the re-ranking stage, as configured
\* in setup_query_engine, hands on nodes of the candidate set with their
\* text and their metadata unchanged; nothing but score and order differs
\* and the fusion score is gone.
C11_OnlyScoreAndOrder ==
    AfterRerank =>
        /\ Range(reranked) \subseteq Range(all_nodes)
        /\ docstore = [n \in NodeIds |-> "text of " \o n]
        /\ node_metadata = {}

\* C11, amended: the re-ranking stage leaves node ids and text unchanged
\* and replaces the score of every candidate by the cross-encoder's, but it
\* is configured with keep_retrieval_score=True: every candidate's metadata
\* gains the entry retrieval_score, which holds the node's fusion score.
C11_RetrievalScoreKept ==
    AfterRerank =>
        /\ Range(reranked) \subseteq Range(all_nodes)
        /\ \A k \in 1..Len(all_nodes) :
               Deref(all_nodes[k]).id = Val(returned)[k].id
        /\ docstore = [n \in NodeIds |-> "text of " \o n]
        /\ node_metadata =
               {[ref |-> r, key |-> "retrieval_score", value |-> FusionScore(r)] :
                    r \in Range(all_nodes)}
        /\ \A r \in Range(all_nodes) :
               Deref(r).score \in {Some(x) : x \in RerankScores}

\* A node left the re-ranker with a new score and its fusion score in its
\* metadata.
C11_Witness ==
    /\ pc = "reranked"
    /\ reranked # <<>>
    /\ \E m \in node_metadata :
        /\ m.ref \in Range(reranked)
        /\ m.value # None
        /\ m.value # Deref(m.ref).score

----------------------------------------------------------------------------
\* Start-up.

\* The storage conditions of C12: no directory, no docstore.json, no
\* 'docstore/data' key or no entry under it, or no document loaded.
StorageMissingOrEmpty(st) ==
    \/ ~DirExists(st)
    \/ ~DocstoreExists(st)
    \/ NoDocstoreData(st)
    \/ st # "malformed" /\ LoadedDocCount(st) = 0

RetrievalParts ==
    {"vector_retriever", "bm25_retriever", "hybrid_retriever", "reranker",
     "query_engine"}

\* C12: when ./storage is missing or empty, setup_query_engine raises, and
\* it has built no retriever, no re-ranker and no query engine by then.
C12_FailFast ==
    StorageMissingOrEmpty(env.storage) =>
        /\ SetupQueryEngine(env).raised # None
        /\ Range(SetupQueryEngine(env).built) \cap RetrievalParts = {}
        /\ \A assigned \in BOOLEAN :
            /\ SetupAgent(env, assigned).raised # None
            /\ Range(SetupAgent(env, assigned).built) \cap RetrievalParts = {}

\* The app's initialization ran setup_query_engine on a storage without
\* documents and reported the exception it raised.
C12_Witness ==
    /\ proc = "app"
    /\ env.apiKey
    /\ StorageMissingOrEmpty(env.storage)
    /\ resp # None
    /\ Val(resp).route = "initialize_agent"
    /\ Val(resp).caught = SetupQueryEngine(env).raised

\* C13: an engine is only built when the dimension of config.EMBED_MODEL is
\* the dimension of the persisted collection; a mismatch makes
\* setup_query_engine raise.
C13_DimensionValidated ==
    (agent # None /\ SetupQueryEngine(env).raised = None)
        => env.embedDim = IngestVectorSize

\* C14: without GOOGLE_API_KEY setup_agent, setup_query_engine and the
\* server's initialize_agent raise, the app's initialize_agent reports the
\* error and stops, the agent stays None and no handler calls agent.chat.
C14_NoKeyNoAgent ==
    ~env.apiKey =>
        /\ \A assigned \in BOOLEAN : SetupAgent(env, assigned).raised # None
        /\ SetupQueryEngine(env).raised # None
        /\ ServerInitializeAgent(env, None).raised # None
        /\ AppInitializeAgent(env, None).failed
        /\ AppInitializeAgent(env, None).agent = None
        /\ agent = None
        /\ proc = "server" => lifecycle \in {"start", "down"}
        /\ proc = "cli" => lifecycle \in {"start", "exited"}
        /\ resp # None => Val(resp).chatCalls = 0

\* Without the key the app's initialization has failed and a message sent
\* afterwards was answered without the agent.
C14_Witness ==
    /\ ~env.apiKey
    /\ proc = "app"
    /\ initFailed
    /\ resp # None
    /\ Val(resp).route = "chat_with_agent"

NotInitialized == <<"Agent not initialized. Please click 'Initialize Agent' first.">>

\* C15, as the specification states it: after an agent initialization that
\* failed, no request handler of the server or of the app accepts a request.
C15_NoHandlerAfterFailedInit ==
    (proc \in {"server", "app"} /\ initFailed /\ resp # None)
        => ~Val(resp).afterFailedInit

\* C15, amended: a failed initialization ends the Flask server, which then
\* answers nothing; the Gradio app goes on serving, and as long as its
\* agent is None chat_with_agent answers every message with "Agent not
\* initialized" and does not call agent.chat.
C15_FailedInitServesNoQuery ==
    /\ (proc = "server" /\ initFailed)
           => (lifecycle = "down" /\ agent = None /\ resp = None)
    /\ (proc = "app" /\ initFailed) => lifecycle = "serving"
    /\ (proc = "app" /\ agent = None /\ resp # None
            /\ Val(resp).route = "chat_with_agent")
           => (Val(resp).chatCalls = 0 /\ Val(resp).text = NotInitialized)

\* With the key set, the app's initialization failed on the storage and a
\* message sent afterwards was answered by chat_with_agent.
C15_Witness ==
    /\ proc = "app"
    /\ env.apiKey
    /\ initFailed
    /\ agent = None
    /\ resp # None
    /\ Val(resp).route = "chat_with_agent"
    /\ Val(resp).afterFailedInit

----------------------------------------------------------------------------
\* Errors of one query.

ChatRoutes == {"/chat", "chat_with_agent"}

\* C16: whatever is raised while /chat or chat_with_agent handles a request
\* is caught by the handler and answered with an error response of the
\* handler; the process goes on serving and keeps its agent.
C16_ErrorsCaught ==
    (resp # None /\ Val(resp).route \in ChatRoutes) =>
        /\ Val(resp).escaped = None
        /\ (Val(resp).caught # None /\ Val(resp).route = "/chat")
               => Val(resp).fields = {"error"}
        /\ lifecycle = "serving"
        /\ Val(resp).caught # None => agent # None

\* The text of the exception is part of the answer.
Leaks(r) == \E w \in Range(Str(Val(r.caught))) : w \in Range(r.text)

\* C17: no error response of /chat, /ingest or chat_with_agent contains the
\* text of the exception that caused it.
C17_NoExceptionText ==
    (resp # None /\ Val(resp).route \in {"/chat", "/ingest", "chat_with_agent"}
        /\ Val(resp).caught # None)
        => ~Leaks(Val(resp))

\* The failure is a quota or rate-limit failure of the provider, by the
\* exception the provider's client raised. No line of the program tests
\* this: main.py looks for words in the message (MentionsRateLimit).
IsRateLimit(e) == e.type \in {"ResourceExhausted", "TooManyRequests"}

\* What the caller of a boundary sees of an answer.
Visible(r) == [status |-> r.status, fields |-> r.fields, text |-> r.text]

\* What the boundary answers when agent.chat raises e.
FailureOutcome(route, e) ==
    IF route = "/chat"
    THEN Visible(ChatEndpointResponse(TheAgent, [is_json |-> TRUE, body |-> "query"],
                                      Some(e)))
    ELSE Visible(CliErrorLog(e))

\* C18: what /chat and the command-line loop answer for a query that failed
\* on a quota or rate limit differs from what they answer for every other
\* failure.
C18_RateLimitDistinct ==
    (resp # None /\ Val(resp).route \in {"/chat", "cli"}
        /\ Val(resp).caught # None /\ IsRateLimit(Val(Val(resp).caught)))
        => \A e \in AgentErrors :
               ~IsRateLimit(e) => FailureOutcome(Val(resp).route, e) # Visible(Val(resp))

\* C19: one call of _retrieve invokes the vector retriever once and then
\* the BM25 retriever once, the BM25 retriever not at all when the vector
\* retriever raised; one /chat request calls agent.chat at most once.
C19_NoRetry ==
    /\ invoked \in {<<>>, <<"vector">>, <<"vector", "bm25">>}
    /\ pc \in {"vector_loop", "bm25_loop", "sort", "retrieved", "reranked", "answered"}
           => invoked = <<"vector", "bm25">>
    /\ (pc = "raised" /\ error = "vector retriever") => invoked = <<"vector">>
    /\ (pc = "raised" /\ error # "vector retriever") => invoked = <<"vector", "bm25">>
    /\ (resp # None /\ Val(resp).route = "/chat") => Val(resp).chatCalls <= 1

\* The vector retriever raised and the BM25 retriever was not invoked; a
\* /chat request whose agent.chat raised was answered after that one call.
C19_Witness ==
    /\ pc = "raised"
    /\ error = "vector retriever"
    /\ invoked = <<"vector">>
    /\ resp # None
    /\ Val(resp).route = "/chat"
    /\ Val(resp).caught # None
    /\ Val(resp).chatCalls = 1

\* C20: every 200 response of /chat holds the answer and its sources.
C20_AnswerAndSources ==
    (resp # None /\ Val(resp).route = "/chat" /\ Val(resp).status = Some(200))
        => {"response", "sources"} \subseteq Val(resp).fields

----------------------------------------------------------------------------
\* C22: a score is never dropped in fusion: every node _retrieve returns
\* carries a numeric score, and a node whose sub-retriever supplied None is
\* merged as if its score were 0 instead of failing the merge.
C22_ScoreNeverDropped ==
    /\ returned # None =>
            \A k \in 1..Len(Val(returned)) : Val(returned)[k].score # None
    /\ error # "TypeError"

----------------------------------------------------------------------------
----------------------------------------------------------------------------
\* C23: the global agent is initialized at most once per process: over every
\* sequence and interleaving of initialize_agent calls setup_agent is invoked
\* at most once, and an agent that is set is never assigned again.
C23_InitializedOnce ==
    /\ setupCalls <= 1
    /\ ~replaced

----------------------------------------------------------------------------
\* The body of the request parses as JSON.
ValidJson(rq) == rq.body # "malformed"

\* C24: POST /chat calls agent.chat only for a request that passed the three
\* checks (agent, JSON content type, non-empty query), a rejected request gets
\* 503 or 400 without a call, and every request whose body is valid JSON is
\* answered by one of the handler's JSON responses.
C24_ChecksBeforeAgent ==
    (resp # None /\ Val(resp).route = "/chat") =>
        LET r == Val(resp)
            rq == Val(Val(resp).request)
        IN  /\ r.chatCalls = 1 =>
                    /\ rq.is_json
                    /\ rq.body = "query"
                    /\ r.status \in {Some(200), Some(500)}
            /\ ~rq.is_json => r.status \in {Some(503), Some(400)}
            /\ (r.status \in {Some(503), Some(400)}) => r.chatCalls = 0
            /\ ValidJson(rq) =>
                    /\ r.escaped = None
                    /\ r.fields \in {{"error"}, {"response"}}
                    /\ r.chatCalls = 0 => r.status \in {Some(503), Some(400)}

----------------------------------------------------------------------------
\* C25: POST /ingest runs the ingestion: it does not fail for want of
\* something to call, an answer 200 leaves an ingested storage and an agent,
\* and an answer 500 comes from a failure of the ingestion or of setup_agent.
C25_IngestRuns ==
    (resp # None /\ Val(resp).route = "/ingest") =>
        /\ Val(resp).caught # Some(NoMain)
        /\ Val(resp).status = Some(200) =>
                (agent # None /\ env.storage = "populated")

----------------------------------------------------------------------------
\* C28: initialize_agent of the Gradio app, invoked while the agent exists,
\* does not set up again and the message 'Agent already initialized and
\* ready!' is among the values the call produces.
C28_ReportsAlreadyInitialized ==
    (/\ resp # None
     /\ Val(resp).route = "initialize_agent"
     /\ Val(resp).result = Some(AlreadyInitialized)) =>
        /\ Val(resp).caught = None
        /\ \E k \in 1..Len(Val(resp).yields) : Val(resp).yields[k] = AlreadyInitialized

----------------------------------------------------------------------------
\* The conversation history of the session of the command-line loop.
History == IF session = None THEN <<>> ELSE Val(session).conversation_history

\* The step ends with a new answer of the loop to a call of agent.chat that
\* returned or raised an exception of its own; Ctrl-C during a call is the
\* user's doing, ends the loop and answers nothing.
Answered ==
    /\ resp' # None
    /\ resp' # resp
    /\ Val(resp').chatCalls = 1
    /\ Val(resp').route # "cli_interrupt"

----------------------------------------------------------------------------
\* C26: whenever the nougat command failed, parse_documents_with_nougat
\* returned True and the build_and_persist_index that follows reads the PDF
\* directory, whatever markdown files earlier runs left.
C26_NougatFallback ==
    (ingest # None /\ ingest.run = "failed") =>
        /\ ingest.parsed = Some(TRUE)
        /\ ingest.loaded_from \in {None, Some("pdf")}

----------------------------------------------------------------------------
\* C27: when build_and_persist_index raises for one of its input errors (no
\* API key, no documents, no nodes), the collection has been neither deleted
\* nor recreated and nothing has been persisted: the storage is as it was
\* when the function was entered.
C27_InputErrorsLeaveIndex ==
    (ingest # None /\ ingest.raised # None /\ Val(ingest.raised) \in InputErrors) =>
        /\ ingest.collection = "as_persisted"
        /\ ingest.docstore_file = "as_persisted"
        /\ Some(env) = ingest.storage_before
        /\ ingest.exit = Some(1)

\* A run over an index persisted earlier found documents without a sentence
\* and ended: the index is still there.
C27_Witness ==
    /\ ingest # None
    /\ ingest.step = "exited"
    /\ ingest.raised = Some(NoNodes)
    /\ ingest.documents # {}
    /\ env.storage = "populated"
    /\ ingest.collection = "as_persisted"
====
